---- MODULE Spec2Model ----
(***************************************************************************)
(* Fragment extraction with the fast tree kernel (discodop/_fragments.pyx).*)
(*                                                                         *)
(* Trees are arrays of Node structs (prod, left, right), indexed from 0,   *)
(* sorted by production id.  left < 0 encodes a terminal (-left - 1 is its *)
(* index in the sentence), right = -1 a unary node.  A bitset is modelled  *)
(* as the set of its set bit indices, a wrapped bitset (bits followed by   *)
(* the BitsetTail) as a record [bits, id, root].                           *)
(***************************************************************************)
EXTENDS Integers, Sequences, FiniteSets, TLC

VARIABLES
    pc,         \* position of the run
    files,      \* the lines of the two treebank files
    shards,     \* the calls still to make on these treebanks, and what the
                \* calls made so far returned
    prods,      \* prods: the productions in the order of their ids
    args,       \* arguments of the call: flags and bounds of the shard
    trees1,     \* Ctrees of the first treebank
    sents1,     \* its sentences
    trees2,     \* Ctrees of the second treebank; trees1 once the run begins
                \* when there is no second file
    sents2,     \* its sentences
    labels,     \* labels[p]: the label of the left hand side of production p
    n,          \* extractfragments: index of the source tree
    todo,       \* extractfragments: partner trees m still to visit for n
    inter,      \* extractfragments: set of wrapped bitsets of tree n
    fragments,  \* extractfragments: the result dictionary
    raised,     \* the exception that ended the run, or None
    cands,      \* extractfragments: what twoterminals returned for n
    pairs,      \* history: the pairs (n, m) given to extractfrompair
    last,       \* history: what the last extractfrompair call did
    target,     \* exactcounts: its argument trees2
    counts,     \* exactcounts: the result with indices=False
    theindices, \* exactcounts: the result with indices=True
    pa, pb,     \* tree pair: the trees a and b (NodeArray with its nodes)
    pargs,      \* tree pair: minterms, complement; fasttreekernel step by
                \* step: its cursors i, j and ii
    matrix,     \* tree pair: bit matrix of common productions
    presult     \* tree pair: results of extractbitsets, extractcompbitsets

vars == <<pc, files, shards, prods, args, trees1, sents1, trees2, sents2, labels, n, todo, inter,
          fragments, raised, cands, pairs, last, target, counts, theindices,
          pa, pb, pargs, matrix, presult>>

None == "None"

\* ------------------------------------------------------------------ bounds

\* number of trees of a treebank
MaxTrees == 3

\* fasttreekernel on arbitrary sorted arrays: their length, their productions
MaxLen == 3
MaxProd == 2

\* highest bit that malloc may have left set in a new bitset
MaxGarbage == 0

\* ------------------------------------------------------------ input trees

\* labels are sequences of characters, words are atoms
S   == <<"S">>
NP  == <<"N", "P">>
VP  == <<"V", "P">>
DT  == <<"D", "T">>
NN  == <<"N", "N">>
VB  == <<"V", "B">>
VBD == <<"V", "B", "D">>
DOT == <<"$", ".">>

\* a pre-terminal with its word, a unary and a binary node of a bracket tree
Pre(l, w) == [label |-> l, word |-> <<w>>, children |-> <<>>]
Un(l, c) == [label |-> l, word |-> <<>>, children |-> <<c>>]
Bin(l, c, d) == [label |-> l, word |-> <<>>, children |-> <<c, d>>]

\* a pre-terminal without a word, '(NN )'
Open(l) == [label |-> l, word |-> <<>>, children |-> <<>>]

\* the bracket trees the treebanks are drawn from
Library ==
    << \* (S (NP (NN dog)) (VP (VBD ran)))
       Bin(S, Un(NP, Pre(NN, "dog")), Un(VP, Pre(VBD, "ran"))),
       \* (S (NP (DT the) (NN dog)) (VP (VBD ran)))
       Bin(S, Bin(NP, Pre(DT, "the"), Pre(NN, "dog")), Un(VP, Pre(VBD, "ran"))),
       \* (S (NP (NN dog)) (VP (VBD saw) (NP (NN dog))))
       Bin(S, Un(NP, Pre(NN, "dog")),
              Bin(VP, Pre(VBD, "saw"), Un(NP, Pre(NN, "dog")))),
       \* (NP (DT the) (NN cat))
       Bin(NP, Pre(DT, "the"), Pre(NN, "cat")),
       \* (NN dog)
       Pre(NN, "dog"),
       \* (S (NP (DT the) (NN cat)) (VP (VBD saw) (NP (DT the) (NN dog))))
       Bin(S, Bin(NP, Pre(DT, "the"), Pre(NN, "cat")),
              Bin(VP, Pre(VBD, "saw"), Bin(NP, Pre(DT, "the"), Pre(NN, "dog")))),
       \* (VP (VB ran) ($. .))
       Bin(VP, Pre(VB, "ran"), Pre(DOT, "."))
    >>

\* ------------------------------------------------------- reading a treebank

\* prods[prod]: position of x in the sequence s (x occurs in s)
IndexOf(s, x) == CHOOSE k \in 1..Len(s) : s[k] = x

Occurs(s, x) == \E k \in 1..Len(s) : s[k] = x

termidx(x) == -x - 1

\* the production of a node of a bracket tree: (label, children's labels);
\* a leading space distinguishes a terminal from a non-terminal
ProdOf(t) ==
    IF t.children = <<>> THEN <<t.label, <<" ">> \o t.word>>
    ELSE IF Len(t.children) = 1 THEN <<t.label, t.children[1].label>>
    ELSE <<t.label, t.children[1].label, t.children[2].label>>

\* readnode on a binarized tree: st holds prods, labels, result (the Node
\* structs written so far, idx = Len(result)) and sent
RECURSIVE readnode(_, _)
readnode(t, st) ==
    LET prod == ProdOf(t)
        isterm == t.children = <<>>
        known == Occurs(st.prods, prod)
        idx == Len(st.result)
        st1 == [prods |-> IF known THEN st.prods ELSE Append(st.prods, prod),
                labels |-> IF known THEN st.labels ELSE Append(st.labels, t.label),
                result |-> Append(st.result, [prod |-> -1, left |-> -1, right |-> -1]),
                sent |-> IF ~isterm THEN st.sent
                         ELSE Append(st.sent, IF t.word = <<>> THEN None ELSE t.word[1])]
        left == IF isterm THEN termidx(Len(st.sent)) ELSE idx + 1
        st2 == IF isterm THEN st1 ELSE readnode(t.children[1], st1)
        right == IF Len(t.children) = 2 THEN Len(st2.result) ELSE -1
        st3 == IF Len(t.children) = 2 THEN readnode(t.children[2], st2) ELSE st2
    IN  [st3 EXCEPT !.result[idx + 1] =
            [prod |-> IndexOf(st3.prods, prod) - 1, left |-> left, right |-> right]]

\* ------------------------------------------------------------------ Ctrees

\* sizes readtreebank allocates before it reads
AllocTrees == 512
AllocNodes == 262144

\* Ctrees.alloc; alloctrees and allocnodes are the numbers of structs the
\* arrays trees and nodes were allocated for
Alloc(numtrees, numnodes) ==
    [len |-> 0, max |-> numtrees, numnodes |-> 0, maxnodes |-> 0,
     nodesleft |-> numnodes, trees |-> <<>>, nodes |-> <<>>,
     treeswithprod |-> <<>>, alloctrees |-> numtrees, allocnodes |-> numnodes]

\* Ctrees.realloc: the new capacities
Overallocate(k) == k + (k \div 8) + (IF k < 9 THEN 3 ELSE 6)

\* realloc that grows the array of trees only
ReallocTreesOnly(self, numtrees, extranodes) ==
    [self EXCEPT
        !.max = IF numtrees > self.max THEN Overallocate(numtrees) ELSE @,
        !.alloctrees = IF numtrees > self.max THEN Overallocate(numtrees) ELSE @]

Realloc(self, numtrees, extranodes) ==
    [self EXCEPT
        !.max = IF numtrees > self.max THEN Overallocate(numtrees) ELSE @,
        !.alloctrees = IF numtrees > self.max THEN Overallocate(numtrees) ELSE @,
        !.nodesleft = IF extranodes > self.nodesleft
                      THEN Overallocate(self.numnodes + extranodes) - self.numnodes
                      ELSE @,
        !.allocnodes = IF extranodes > self.nodesleft
                       THEN Overallocate(self.numnodes + extranodes) ELSE @]

\* the nodes copied in the order of the source
SortIdxUnsorted(source, cnt) == [k \in 0..cnt-1 |-> k]

\* sorted(range(cnt), key=prodsintree.get): the position a stable sort by
\* production gives source node k
SortIdx(source, cnt) ==
    [k \in 0..cnt-1 |->
        Cardinality({h \in 0..cnt-1 : source[h+1].prod < source[k+1].prod})
        + Cardinality({h \in 0..k-1 : source[h+1].prod = source[k+1].prod})]

\* Ctrees.addnodes: source is the sequence of cnt Node structs of readnode
AddNodes(self, source, cnt, root) ==
    LET c == IF self.len >= self.max \/ self.nodesleft < cnt
             THEN Realloc(self, self.len + 1, cnt) ELSE self
        sortidx == SortIdx(source, cnt)
        src(m) == source[(CHOOSE k \in 0..cnt-1 : sortidx[k] = m) + 1]
        dest == [m \in 1..cnt |->
                    LET s == src(m - 1)
                    IN  [prod |-> s.prod,
                         left |-> IF s.left >= 0 THEN sortidx[s.left] ELSE s.left,
                         right |-> IF s.left >= 0 /\ s.right >= 0
                                   THEN sortidx[s.right] ELSE s.right]]
    IN  [c EXCEPT
            !.trees = SubSeq(@, 1, c.len)
                      \o <<[offset |-> c.numnodes, root |-> sortidx[root],
                            len |-> cnt]>>,
            !.nodes = SubSeq(@, 1, c.numnodes) \o dest
                      \o SubSeq(@, c.numnodes + cnt + 1, Len(@)),
            !.len = @ + 1,
            !.nodesleft = @ - cnt,
            !.numnodes = @ + cnt,
            !.maxnodes = IF cnt > @ THEN cnt ELSE @]

\* trees.trees[m] and &trees.nodes[a.offset], the latter as an array from 0
TreeAt(ct, m) == ct.trees[m + 1]

NodesAt(ct, m) ==
    LET a == ct.trees[m + 1]
    IN  [i \in 0..a.len-1 |-> ct.nodes[a.offset + i + 1]]

\* Ctrees.indextrees: the loops over the trees n and their nodes m, which
\* add n to the set of the production of the node
RECURSIVE IndexLoop(_, _, _, _)
IndexLoop(self, result, nn, m) ==
    IF nn >= self.len THEN result
    ELSE IF m >= TreeAt(self, nn).len THEN IndexLoop(self, result, nn + 1, 0)
    ELSE IndexLoop(self,
                   [result EXCEPT ![NodesAt(self, nn)[m].prod + 1] = @ \cup {nn}],
                   nn, m + 1)

\* indextrees that looks at the first node of a tree only
IndexTreesFirstNode(self, prods0) ==
    [self EXCEPT !.treeswithprod =
        [p \in 1..Len(prods0) |->
            {m \in 0..self.len-1 : NodesAt(self, m)[0].prod = p - 1}]]

\* Ctrees.indextrees: treeswithprod, a list of one set for every production
\* of prods
IndexTrees(self, prods0) ==
    [self EXCEPT !.treeswithprod =
        IndexLoop(self, [p \in 1..Len(prods0) |-> {}], 0, 0)]

TreesWithProd(ct, p) == ct.treeswithprod[p + 1]

\* readtreebank, bracket format: reads the trees of a treebank one by one,
\* extending prods and labels; the index is built by the caller afterwards
RECURSIVE ReadTrees(_, _, _)
ReadTrees(lines, st, ctrees) ==
    IF lines = <<>> THEN [prods |-> st.prods, labels |-> st.labels,
                          ctrees |-> ctrees, sents |-> st.sents]
    ELSE LET r == readnode(Head(lines),
                    [prods |-> st.prods, labels |-> st.labels,
                     result |-> <<>>, sent |-> <<>>])
         IN  ReadTrees(Tail(lines),
                [prods |-> r.prods, labels |-> r.labels,
                 sents |-> Append(st.sents, r.sent)],
                AddNodes(ctrees, r.result, Len(r.result), 0))

readtreebank(lines, labels0, prods0) ==
    ReadTrees(lines, [prods |-> prods0, labels |-> labels0, sents |-> <<>>],
              Alloc(AllocTrees, AllocNodes))

\* ----------------------------------------------------------------- bitsets

\* width of a slot of a bitset in bits (uint64_t)
BITSIZE == 64

\* number of slots needed for nb bits
BITNSLOTS(nb) == (nb + BITSIZE - 1) \div BITSIZE

Max(x, y) == IF x >= y THEN x ELSE y

Min(x, y) == IF x <= y THEN x ELSE y

MinOf(set) == CHOOSE x \in set : \A y \in set : x <= y

MaxOf(set) == CHOOSE x \in set : \A y \in set : x >= y

\* wrap after setrootid: the bitset with its BitsetTail
Wrap(bits, root, id) == [bits |-> bits, id |-> id, root |-> root]

\* ---------------------------------------------------------- fasttreekernel

\* KernelRow without the loop over the run of a: only its first node is set
KernelRowFirstOnly(a, b, alen, ii, j, row) ==
    IF a[ii].prod = b[j].prod THEN row \cup {ii} ELSE row

\* the innermost loop: sets bit ii of a row for the run of a that starts at ii
RECURSIVE KernelRow(_, _, _, _, _, _)
KernelRow(a, b, alen, ii, j, row) ==
    IF a[ii].prod = b[j].prod
    THEN IF ii + 1 >= alen THEN row \cup {ii}
         ELSE KernelRow(a, b, alen, ii + 1, j, row \cup {ii})
    ELSE row

\* the loops over i and j; m is the matrix, a function from the rows
\* 0..blen-1 to bitsets
RECURSIVE KernelLoop(_, _, _, _, _, _, _)
KernelLoop(a, b, alen, blen, i, j, m) ==
    IF a[i].prod < b[j].prod
    THEN IF i + 1 >= alen THEN m ELSE KernelLoop(a, b, alen, blen, i + 1, j, m)
    ELSE IF a[i].prod > b[j].prod
    THEN IF j + 1 >= blen THEN m ELSE KernelLoop(a, b, alen, blen, i, j + 1, m)
    ELSE LET m1 == [m EXCEPT ![j] = KernelRow(a, b, alen, i, j, m[j])]
         IN  IF j + 1 >= blen THEN m1
             ELSE KernelLoop(a, b, alen, blen, i, j + 1, m1)

fasttreekernel(a, b, alen, blen, m) == KernelLoop(a, b, alen, blen, 0, 0, m)

\* memset of the rows of b
ZeroMatrix(blen) == [j \in 0..blen-1 |-> {}]

\* ------------------------------------------------ extractbitsets, extractat

\* extractat that leaves the bit of its cell set
RECURSIVE extractatNoClear(_, _, _, _, _, _)
extractatNoClear(m, result, a, b, i, j) ==
    LET r1 == result \cup {i}
        here == [matrix |-> m, result |-> r1, terms |-> 0, cells |-> {<<i, j>>}]
    IN  IF a[i].left < 0 THEN [here EXCEPT !.terms = 1]
        ELSE
          LET l == IF a[i].left \in m[b[j].left]
                   THEN LET x == extractatNoClear(m, r1, a, b, a[i].left, b[j].left)
                        IN  [x EXCEPT !.cells = @ \cup here.cells]
                   ELSE here
          IN  IF a[i].right < 0 THEN [l EXCEPT !.terms = 0]
              ELSE IF a[i].right \in l.matrix[b[j].right]
              THEN LET y == extractatNoClear(l.matrix, l.result, a, b,
                                             a[i].right, b[j].right)
                   IN  [y EXCEPT !.terms = @ + l.terms,
                                 !.cells = @ \cup l.cells]
              ELSE l

\* extractat: returns the matrix, the result bitset, the number of terminals
\* and (history) the cells (i, j) it visited
RECURSIVE extractat(_, _, _, _, _, _)
extractat(m, result, a, b, i, j) ==
    LET m1 == [m EXCEPT ![j] = @ \ {i}]
        r1 == result \cup {i}
        here == [matrix |-> m1, result |-> r1, terms |-> 0, cells |-> {<<i, j>>}]
    IN  IF a[i].left < 0 THEN [here EXCEPT !.terms = 1]
        ELSE
          LET l == IF a[i].left \in m1[b[j].left]
                   THEN LET x == extractat(m1, r1, a, b, a[i].left, b[j].left)
                        IN  [x EXCEPT !.cells = @ \cup here.cells]
                   ELSE here
          IN  IF a[i].right < 0 THEN [l EXCEPT !.terms = 0]
              ELSE IF a[i].right \in l.matrix[b[j].right]
              THEN LET y == extractat(l.matrix, l.result, a, b,
                                      a[i].right, b[j].right)
                   IN  [y EXCEPT !.terms = @ + l.terms,
                                 !.cells = @ \cup l.cells]
              ELSE l

\* ExtractRow with the comparison against minterms off by one
RECURSIVE ExtractRowOffByOne(_, _, _, _, _, _, _)
ExtractRowOffByOne(st, bits, a, b, j, nn, minterms) ==
    IF bits = {} THEN st
    ELSE LET i == MinOf(bits)
             x == extractat(st.matrix, {}, a, b, i, j)
         IN  ExtractRowOffByOne(
                [matrix |-> x.matrix,
                 results |-> IF x.terms + 1 >= minterms
                             THEN st.results \cup {Wrap(x.result, i, nn)}
                             ELSE st.results,
                 log |-> st.log \cup {[i |-> i, j |-> j, bits |-> x.result,
                                       terms |-> x.terms + 1, cells |-> x.cells]}],
                bits \ {i}, a, b, j, nn, minterms)

\* the loop of extractbitsets over the bits of row j, in ascending order;
\* st holds the matrix, the results and (history) a log of the fragments
\* extracted: root cell, bits, terms, cells
RECURSIVE ExtractRow(_, _, _, _, _, _, _)
ExtractRow(st, bits, a, b, j, nn, minterms) ==
    IF bits = {} THEN st
    ELSE LET i == MinOf(bits)
             x == extractat(st.matrix, {}, a, b, i, j)
         IN  ExtractRow(
                [matrix |-> x.matrix,
                 results |-> IF x.terms >= minterms
                             THEN st.results \cup {Wrap(x.result, i, nn)}
                             ELSE st.results,
                 log |-> st.log \cup {[i |-> i, j |-> j, bits |-> x.result,
                                       terms |-> x.terms, cells |-> x.cells]}],
                bits \ {i}, a, b, j, nn, minterms)

\* extractbitsets visiting the children of b[j] before row j (bottom-up)
RECURSIVE extractbitsetsBottomUp(_, _, _, _, _, _)
extractbitsetsBottomUp(st, a, b, j, nn, minterms) ==
    LET s1 == IF b[j].left >= 0
              THEN extractbitsetsBottomUp(st, a, b, b[j].left, nn, minterms)
              ELSE st
        s2 == IF b[j].left >= 0 /\ b[j].right >= 0
              THEN extractbitsetsBottomUp(s1, a, b, b[j].right, nn, minterms)
              ELSE s1
    IN  ExtractRow(s2, s2.matrix[j], a, b, j, nn, minterms)

\* extractbitsets that does not visit the right child of b[j]
RECURSIVE extractbitsetsLeftOnly(_, _, _, _, _, _)
extractbitsetsLeftOnly(st, a, b, j, nn, minterms) ==
    LET s1 == ExtractRow(st, st.matrix[j], a, b, j, nn, minterms)
    IN  IF b[j].left >= 0
        THEN extractbitsetsLeftOnly(s1, a, b, b[j].left, nn, minterms)
        ELSE s1

RECURSIVE extractbitsets(_, _, _, _, _, _)
extractbitsets(st, a, b, j, nn, minterms) ==
    LET s1 == ExtractRow(st, st.matrix[j], a, b, j, nn, minterms)
    IN  IF b[j].left >= 0
        THEN LET s2 == extractbitsets(s1, a, b, b[j].left, nn, minterms)
             IN  IF b[j].right >= 0
                 THEN extractbitsets(s2, a, b, b[j].right, nn, minterms)
                 ELSE s2
        ELSE s1

\* -------------------------------------------------------- extractcompbitsets

NULL == [null |-> TRUE, bits |-> {}, root |-> -1]

\* extractcompbitsets: bitset is the union of the fragments, scratch the
\* array of the fragment being extracted or NULL; garbage is what malloc
\* left in the bits of a new array, which the function does not clear.
\* Returns the results and the contents of the array that was passed in.
RECURSIVE extractcompbitsets(_, _, _, _, _, _, _)
extractcompbitsets(bitset, a, i, nn, results, scratch, garbage) ==
    LET start == scratch.null /\ i \notin bitset
        s0 == IF start THEN [null |-> FALSE, bits |-> garbage, root |-> i]
              ELSE IF i \in bitset THEN NULL
              ELSE scratch
        s1 == IF ~s0.null THEN [s0 EXCEPT !.bits = @ \cup {i}] ELSE s0
        l == IF a[i].left >= 0
             THEN extractcompbitsets(bitset, a, a[i].left, nn, results, s1, garbage)
             ELSE [results |-> results, scratch |-> s1]
        r == IF a[i].left >= 0 /\ a[i].right >= 0
             THEN extractcompbitsets(bitset, a, a[i].right, nn, l.results,
                                     l.scratch, garbage)
             ELSE l
    IN  IF start
        THEN [results |-> r.results \cup {Wrap(r.scratch.bits, i, nn)},
              scratch |-> scratch]
        ELSE IF i \in bitset THEN [results |-> r.results, scratch |-> scratch]
        ELSE r

\* ------------------------------------------------------------ a tree pair

\* the NodeArray a with its nodes: trees.trees[m] and &trees.nodes[a.offset]
TreeOf(ct, m) ==
    [len |-> TreeAt(ct, m).len, root |-> TreeAt(ct, m).root, nodes |-> NodesAt(ct, m)]

\* what malloc may have left in the bits of a new array: nothing, one of the
\* low bits, or the last bit of the first word
GarbageSets == {{}} \cup {{k} : k \in 0..MaxGarbage} \cup {{BITSIZE - 1}}

\* the union of the bitsets of inter (setunioninplace over the SLOTS words)
UnionBits(set) == UNION {w.bits : w \in set}

\* extractfrompair after the table is filled: extractbitsets from the root
\* of b, then the complement
ExtractResults(m, a, b, nn, minterms, inter0) ==
    extractbitsets([matrix |-> m, results |-> inter0, log |-> {}],
                   a.nodes, b.nodes, b.root, nn, minterms)

ExtractComplement(a, nn, inter0, garbage) ==
    extractcompbitsets(UnionBits(inter0), a.nodes, a.root, nn, inter0, NULL,
                       garbage).results

\* arrays of nodes sorted by production, of which only prod matters
SortedArrays ==
    UNION {{[len |-> len, root |-> 0,
             nodes |-> [i \in 0..len-1 |-> [prod |-> f[i], left |-> -1, right |-> -1]]] :
            f \in {g \in [0..len-1 -> 0..MaxProd] :
                       \A i \in 0..len-2 : g[i] <= g[i+1]}} :
           len \in 1..MaxLen}

\* two trees of the library read into one treebank
PairOf(x, y) ==
    LET r == readtreebank(<<Library[x], Library[y]>>, <<>>, <<>>)
    IN  [a |-> TreeOf(r.ctrees, 0), b |-> TreeOf(r.ctrees, 1)]

Unused == <<files, shards, prods, args, trees1, sents1, trees2, sents2, labels, n, todo, inter,
            fragments, raised, cands, pairs, last, target, counts, theindices>>

InitUnused ==
    /\ files = None /\ shards = None /\ prods = None /\ args = None /\ trees1 = None /\ sents1 = None /\ trees2 = None
    /\ sents2 = None /\ labels = None /\ n = 0 /\ todo = {} /\ inter = {}
    /\ fragments = <<>> /\ raised = None /\ cands = {} /\ pairs = {}
    /\ last = None /\ target = None /\ counts = <<>> /\ theindices = <<>>

InitKernel ==
    /\ pc = "kernel"
    /\ pa \in SortedArrays
    /\ pb \in SortedArrays
    /\ pargs = [minterms |-> 0, complement |-> FALSE]
    /\ matrix = None
    /\ presult = None
    /\ InitUnused

InitPair ==
    /\ pc = "kernel"
    /\ \E x, y \in 1..Len(Library) :
          /\ pa = PairOf(x, y).a
          /\ pb = PairOf(x, y).b
    /\ pargs \in [minterms : {0, 2}, complement : BOOLEAN]
    /\ matrix = None
    /\ presult = None
    /\ InitUnused

\* extractfrompair: initialize the table and fill it
FastTreeKernel ==
    /\ pc = "kernel"
    /\ matrix' = fasttreekernel(pa.nodes, pb.nodes, pa.len, pb.len,
                                ZeroMatrix(pb.len))
    /\ pc' = "extract"
    /\ UNCHANGED <<pa, pb, pargs, presult>>
    /\ UNCHANGED Unused

\* extractfrompair: extract results
ExtractBitsets ==
    /\ pc = "extract"
    /\ LET s == ExtractResults(matrix, pa, pb, 0, pargs.minterms, {})
       IN  /\ matrix' = s.matrix
           /\ presult' = [main |-> s.results, log |-> s.log, comp |-> {},
                          inter |-> s.results, garbage |-> {}]
    /\ pc' = IF pargs.complement THEN "complement" ELSE "done"
    /\ UNCHANGED <<pa, pb, pargs>>
    /\ UNCHANGED Unused

\* extractfrompair: extract complementary fragments
ExtractCompBitsets ==
    /\ pc = "complement"
    /\ \E garbage \in GarbageSets :
          LET r == ExtractComplement(pa, 0, presult.inter, garbage)
          IN  presult' = [presult EXCEPT !.inter = r,
                                         !.comp = r \ presult.inter,
                                         !.garbage = garbage]
    /\ pc' = "done"
    /\ UNCHANGED <<pa, pb, pargs, matrix>>
    /\ UNCHANGED Unused

NextKernel == FastTreeKernel

NextPair == FastTreeKernel \/ ExtractBitsets \/ ExtractCompBitsets

SpecKernel == InitKernel /\ [][NextKernel]_vars

SpecPair == InitPair /\ [][NextPair]_vars

\* ------------------------------------------------------------------ claims

\* the nested all-pairs matrix of Moschitti's formulation
ReferenceMatrix(a, b) ==
    [j \in 0..b.len-1 |-> {i \in 0..a.len-1 : a.nodes[i].prod = b.nodes[j].prod}]

\* C1: for any two non-empty arrays sorted by production and a zeroed
\* matrix, fasttreekernel leaves bit i of row j set iff a[i].prod = b[j].prod
C1_KernelIsAllPairs ==
    pc = "extract" =>
        \A j \in 0..pb.len-1 : \A i \in 0..pa.len-1 :
            (i \in matrix[j]) <=> (pa.nodes[i].prod = pb.nodes[j].prod)

\* the kernel has run on arrays in which equal productions form runs longer
\* than one on both sides
C1_Witness ==
    /\ pc = "extract"
    /\ \E i \in 0..pa.len-2 : \E j \in 0..pb.len-2 :
          /\ pa.nodes[i].prod = pa.nodes[i+1].prod
          /\ pb.nodes[j].prod = pb.nodes[j+1].prod
          /\ pa.nodes[i].prod = pb.nodes[j].prod
          /\ {i, i+1} \subseteq matrix[j] \cap matrix[j+1]

\* the children of node i of tree a
Kids(a, i) ==
    IF a.nodes[i].left < 0 THEN {}
    ELSE {a.nodes[i].left} \cup (IF a.nodes[i].right >= 0 THEN {a.nodes[i].right} ELSE {})

\* the nodes of bits that a chain of parent-child links through nodes of
\* bits reaches from node i
RECURSIVE ReachSet(_, _, _)
ReachSet(a, bits, i) ==
    IF i \notin bits THEN {}
    ELSE {i} \cup UNION {ReachSet(a, bits, k) : k \in Kids(a, i)}

ConnectedAt(a, w) ==
    /\ w.root \in w.bits
    /\ w.bits \subseteq 0..a.len-1
    /\ w.bits = ReachSet(a, w.bits, w.root)

\* the terminals of a fragment: its nodes with left < 0
Terminals(a, bits) == {i \in bits : i < a.len /\ a.nodes[i].left < 0}

\* C4: every bitset emitted by extractbitsets or extractcompbitsets with
\* root i has bit i set, and its set bits are nodes of a that form a
\* connected subtree rooted at i
C4_EmittedConnected ==
    pc \in {"complement", "done"} =>
        \A w \in presult.inter : ConnectedAt(pa, w)

\* the same when malloc returned zeroed memory
C4_ZeroedConnected ==
    (pc \in {"complement", "done"} /\ presult.garbage = {}) =>
        \A w \in presult.inter : ConnectedAt(pa, w)

\* the part of C4 that is about extractbitsets
C4_MaximalConnected ==
    pc \in {"complement", "done"} =>
        \A w \in presult.main : ConnectedAt(pa, w)

\* the log entries of the fragments that were added to the results
Emitted == {e \in presult.log : e.terms >= pargs.minterms}

\* C5: every fragment emitted from a root cell (i, j) is maximal: every
\* child pair on the same side of an included pair whose productions agree
\* is included, and no pair of parents of i and j with equal productions
\* has i and j both as left or both as right children
C5_Maximal ==
    pc \in {"complement", "done"} =>
        \A e \in Emitted :
            /\ Wrap(e.bits, e.i, 0) \in presult.main
            /\ e.bits = {c[1] : c \in e.cells}
            /\ \A c \in e.cells :
                  LET x == pa.nodes[c[1]]
                      y == pb.nodes[c[2]]
                  IN  /\ (x.left >= 0 /\ y.left >= 0
                          /\ pa.nodes[x.left].prod = pb.nodes[y.left].prod)
                              => <<x.left, y.left>> \in e.cells
                      /\ (x.left >= 0 /\ y.left >= 0 /\ x.right >= 0 /\ y.right >= 0
                          /\ pa.nodes[x.right].prod = pb.nodes[y.right].prod)
                              => <<x.right, y.right>> \in e.cells
            /\ ~ \E p \in 0..pa.len-1 : \E q \in 0..pb.len-1 :
                  /\ pa.nodes[p].prod = pb.nodes[q].prod
                  /\ pa.nodes[p].left >= 0
                  /\ pb.nodes[q].left >= 0
                  /\ \/ pa.nodes[p].left = e.i /\ pb.nodes[q].left = e.j
                     \/ pa.nodes[p].right = e.i /\ pb.nodes[q].right = e.j

\* a fragment was emitted below the roots, with a frontier: a child of an
\* included node whose production differs in b
C5_Witness ==
    /\ pc = "done"
    /\ \E e \in Emitted :
          /\ e.i # pa.root
          /\ e.j # pb.root
          /\ Cardinality(e.cells) >= 3
    /\ \E e \in Emitted : \E i \in e.bits : Kids(pa, i) \ e.bits # {}

\* C6: with twoterms on (minterms = 2) every fragment extractbitsets adds
\* has at least 2 terminals; with twoterms off every extracted fragment is
\* added
C6_MinTerms ==
    pc \in {"complement", "done"} =>
        /\ pargs.minterms = 2 =>
              \A w \in presult.main : Cardinality(Terminals(pa, w.bits)) >= 2
        /\ pargs.minterms = 0 =>
              \A e \in presult.log : Wrap(e.bits, e.i, 0) \in presult.main

\* with twoterms on, a fragment with two terminals was added and one with
\* fewer was dropped; with twoterms off, a fragment without terminal was added
C6_WitnessOn ==
    /\ pc = "done"
    /\ pargs.minterms = 2
    /\ presult.main # {}
    /\ \E e \in presult.log :
          /\ Cardinality(Terminals(pa, e.bits)) < 2
          /\ Wrap(e.bits, e.i, 0) \notin presult.main

\* ------------------------------------------------------------ twoterminals

\* ^(?:NN(?:[PS]|PS)?|(?:JJ|RB)[RS]?|VB[DGNPZ])$
ContentWordLabels ==
    {<<"N", "N">>, <<"N", "N", "P">>, <<"N", "N", "S">>, <<"N", "N", "P", "S">>}
    \cup {<<"J", "J">> \o x : x \in {<<>>, <<"R">>, <<"S">>}}
    \cup {<<"R", "B">> \o x : x \in {<<>>, <<"R">>, <<"S">>}}
    \cup {<<"V", "B", x>> : x \in {"D", "G", "N", "P", "Z"}}

contentword(label) == label \in ContentWordLabels

UpperCase == {"A", "B", "C", "D", "E", "F", "G", "H", "I", "J", "K", "L", "M",
              "N", "O", "P", "Q", "R", "S", "T", "U", "V", "W", "X", "Y", "Z"}

\* ^[A-Z]+$
lexical(label) == Len(label) >= 1 /\ \A k \in 1..Len(label) : label[k] \in UpperCase

contentwordprods(labs) == {p \in 0..Len(labs)-1 : contentword(labs[p + 1])}

lexicalprods(labs) == {p \in 0..Len(labs)-1 : lexical(labs[p + 1])}

twoterminals(a, ct2, content, lexic) ==
    UNION {TreesWithProd(ct2, a.nodes[i].prod) \cap TreesWithProd(ct2, a.nodes[j].prod) :
           <<i, j>> \in {x \in (0..a.len-1) \X (0..a.len-1) :
                /\ ~(a.nodes[x[1]].left >= 0 \/ a.nodes[x[1]].prod \notin content)
                /\ x[1] # x[2]
                /\ a.nodes[x[2]].left < 0
                /\ a.nodes[x[2]].prod \in lexic}}

\* --------------------------------------------------------------- getsubtree

\* the string of the fragment at node i, as a sequence of characters and
\* words; sent is the sentence of the tree (the trees are continuous)
RECURSIVE getsubtree(_, _, _, _, _)
getsubtree(tree, bitset, labs, sent, i) ==
    <<"(">> \o labs[tree[i].prod + 1] \o <<" ">>
    \o (IF i \in bitset
        THEN IF tree[i].left >= 0
             THEN getsubtree(tree, bitset, labs, sent, tree[i].left)
                  \o (IF tree[i].right >= 0
                      THEN <<" ">> \o getsubtree(tree, bitset, labs, sent, tree[i].right)
                      ELSE <<>>)
             ELSE <<sent[termidx(tree[i].left) + 1]>>
        ELSE <<>>)
    \o <<")">>

\* ------------------------------------------------- extractfrompair, collect

\* extractfrompair for the trees a = trees1[n] and b = trees2[m]
extractfrompair(a, b, nn, complement, inter0, minterms, garbage) ==
    LET m0 == fasttreekernel(a.nodes, b.nodes, a.len, b.len, ZeroMatrix(b.len))
        s == ExtractResults(m0, a, b, nn, minterms, inter0)
    IN  [main |-> {Wrap(e.bits, e.i, nn) : e \in {x \in s.log : x.terms >= minterms}},
         log |-> s.log,
         before |-> s.results,
         inter |-> IF complement THEN ExtractComplement(a, nn, s.results, garbage)
                   ELSE s.results]

\* the dictionaries collectfragments can leave, one for each order in which
\* the wrappers of a key can be met; key is the string of a wrapper
RECURSIVE Representatives(_, _, _)
Representatives(dict, keys, key) ==
    IF keys = {} THEN {dict}
    ELSE LET k == CHOOSE x \in keys : TRUE
         IN  UNION {Representatives(dict @@ (k :> w), keys \ {k}, key) :
                    w \in {x \in DOMAIN key : key[x] = k}}

\* collectfragments that stores the wrapper whether the key is there or not
collectfragmentsOverwrite(frags, inter0, anodes, asent, labs, approx) ==
    LET key == [w \in inter0 |-> getsubtree(anodes, w.bits, labs, asent, w.root)]
        keys == {key[w] : w \in inter0}
    IN  IF approx
        THEN {[k \in DOMAIN frags \cup keys |->
                 (IF k \in DOMAIN frags THEN frags[k] ELSE 0)
                 + Cardinality({w \in inter0 : key[w] = k})]}
        ELSE Representatives([k \in DOMAIN frags \ keys |-> frags[k]], keys, key)

collectfragments(frags, inter0, anodes, asent, labs, approx) ==
    LET key == [w \in inter0 |-> getsubtree(anodes, w.bits, labs, asent, w.root)]
        keys == {key[w] : w \in inter0}
    IN  IF approx
        THEN {[k \in DOMAIN frags \cup keys |->
                 (IF k \in DOMAIN frags THEN frags[k] ELSE 0)
                 + Cardinality({w \in inter0 : key[w] = k})]}
        ELSE Representatives(frags, keys \ DOMAIN frags, key)

\* -------------------------------------------------------------- exactcounts

RECURSIVE containsbitset(_, _, _, _, _)
containsbitset(a, b, bitset, i, j) ==
    IF a[i].prod # b[j].prod THEN FALSE
    ELSE IF a[i].left < 0 THEN TRUE
    ELSE IF a[i].left \in bitset /\ ~containsbitset(a, b, bitset, a[i].left, b[j].left)
    THEN FALSE
    ELSE IF a[i].right < 0 THEN TRUE
    ELSE IF a[i].right \in bitset
    THEN containsbitset(a, b, bitset, a[i].right, b[j].right)
    ELSE TRUE

\* the bits iteratesetbits yields for a bitset of SLOTS slots, in order
SetBits(bits, SLOTS) == {i \in bits : i < SLOTS * BITSIZE}

\* the trees left after the loop that intersects the candidates: it starts
\* from the first set bit and stops at the first bit that is no node of a
Candidates(ct2, a, bits) ==
    LET first == MinOf(bits)
        used == {i \in bits : i > first /\ i < a.len}
    IN  {m \in TreesWithProd(ct2, a.nodes[first].prod) :
            \A i \in used : m \in TreesWithProd(ct2, a.nodes[i].prod)}

\* CountFrom with the break on the wrong side: at the first smaller production
RECURSIVE CountFromBreakEarly(_, _, _, _, _)
CountFromBreakEarly(a, b, bitset, i, j) ==
    IF j >= b.len THEN 0
    ELSE IF a.nodes[i].prod = b.nodes[j].prod
    THEN (IF containsbitset(a.nodes, b.nodes, bitset, i, j) THEN 1 ELSE 0)
         + CountFromBreakEarly(a, b, bitset, i, j + 1)
    ELSE IF a.nodes[i].prod > b.nodes[j].prod THEN 0
    ELSE CountFromBreakEarly(a, b, bitset, i, j + 1)

\* the loop over the nodes j of tree b: the number of matches found from
\* node j on; it breaks at the first larger production
RECURSIVE CountFrom(_, _, _, _, _)
CountFrom(a, b, bitset, i, j) ==
    IF j >= b.len THEN 0
    ELSE IF a.nodes[i].prod = b.nodes[j].prod
    THEN (IF containsbitset(a.nodes, b.nodes, bitset, i, j) THEN 1 ELSE 0)
         + CountFrom(a, b, bitset, i, j + 1)
    ELSE IF a.nodes[i].prod < b.nodes[j].prod THEN 0
    ELSE CountFrom(a, b, bitset, i, j + 1)

\* the multiset of tree indices exactcounts collects for one bitset, as a
\* function from its keys to their multiplicity
Matches(ct1, ct2, w) ==
    LET SLOTS == BITNSLOTS(Max(ct1.maxnodes, ct2.maxnodes) + 1)
        a == TreeOf(ct1, w.id)
        bits == SetBits(w.bits, SLOTS)
        found == [m \in Candidates(ct2, a, bits) |->
                    CountFrom(a, TreeOf(ct2, m), w.bits, w.root, 0)]
    IN  [m \in {x \in DOMAIN found : found[x] > 0} |-> found[m]]

\* the count exactcounts collects for one bitset in countsp[n]
RECURSIVE CountOver(_, _, _, _)
CountOver(ct2, a, w, set) ==
    IF set = {} THEN 0
    ELSE LET m == CHOOSE x \in set : TRUE
         IN  CountFrom(a, TreeOf(ct2, m), w.bits, w.root, 0)
             + CountOver(ct2, a, w, set \ {m})

\* exactcounts: bitsets is given as a function from the keys of fragments
exactcounts(ct1, ct2, bitsets, indices) ==
    LET SLOTS == BITNSLOTS(Max(ct1.maxnodes, ct2.maxnodes) + 1)
    IN  IF indices THEN [k \in DOMAIN bitsets |-> Matches(ct1, ct2, bitsets[k])]
        ELSE [k \in DOMAIN bitsets |->
                 LET w == bitsets[k]
                     a == TreeOf(ct1, w.id)
                 IN  CountOver(ct2, a, w,
                               Candidates(ct2, a, SetBits(w.bits, SLOTS)))]

\* --------------------------------------------------------- extractfragments

\* the trees the treebank files are made of
Corpus == SubSeq(Library, 1, 4)

\* the treebanks of up to k different trees of the corpus, in any order
Treebanks(k) ==
    UNION {{c \in [1..len -> 1..Len(Corpus)] :
               \A x, y \in 1..len : c[x] = c[y] => x = y} : len \in 1..k}

Lines(c) == [k \in 1..Len(c) |-> Corpus[c[k]]]

NoPair == [n |-> -1, m |-> -1, main |-> {}, before |-> {}, comp |-> {}, log |-> {},
           first |-> TRUE, garbage |-> {}]

\* the arguments: trees2 and sents2 default to None.  The treebank files
\* are the trees c[1..k] and c[k+1..]; without a second file, trees2 is
\* omitted or is the first treebank given again
NoShards == [plan |-> <<>>, done |-> <<>>]

\* the state before a call extractfragments(trees1, sents1, offset, end, ...)
\* on the treebanks of the files
InitCall(banks, offset, end) ==
    /\ pc = "read"
    /\ \E c \in banks : \E k \in 1..Len(c) :
          /\ files = [trees1 |-> Lines(SubSeq(c, 1, k)),
                      trees2 |-> Lines(SubSeq(c, k + 1, Len(c)))]
          /\ \E f \in [approx : BOOLEAN, complement : BOOLEAN, twoterms : BOOLEAN,
                       adjacent : BOOLEAN, trees2given : BOOLEAN,
                       sents2given : BOOLEAN] :
                /\ k < Len(c) => f.trees2given
                /\ k = Len(c) => f.sents2given = f.trees2given
                /\ f.sents2given => f.trees2given
                /\ args = [approx |-> f.approx, complement |-> f.complement,
                           twoterms |-> f.twoterms, adjacent |-> f.adjacent,
                           trees2given |-> f.trees2given,
                           sents2given |-> f.sents2given,
                           offset |-> offset, end |-> end]
    /\ prods = <<>>
    /\ labels = <<>>
    /\ trees1 = Alloc(AllocTrees, AllocNodes)
    /\ sents1 = <<>>
    /\ trees2 = Alloc(AllocTrees, AllocNodes)
    /\ sents2 = <<>>
    /\ n = args.offset
    /\ todo = {}
    /\ inter = {}
    /\ fragments = <<>>
    /\ raised = None
    /\ cands = {}
    /\ pairs = {}
    /\ last = NoPair
    /\ target = None
    /\ counts = <<>>
    /\ theindices = <<>>
    /\ pa = None /\ pb = None /\ pargs = None /\ matrix = None /\ presult = None

\* one call on the whole of trees1
Init ==
    /\ InitCall(Treebanks(MaxTrees), 0, 0)
    /\ shards = NoShards

PairVars == <<pa, pb, pargs, matrix, presult>>

Inputs == <<files, shards, prods, args, trees1, sents1, trees2, sents2, labels>>

History == <<n, todo, inter, fragments, raised, cands, pairs, last, target,
             counts, theindices>>

\* readtreebank: one round of the loop over the lines, of the first file
\* and then of the second, which re-uses labels and prods
ReadTree ==
    /\ pc = "read"
    /\ trees1.len < Len(files.trees1) \/ trees2.len < Len(files.trees2)
    /\ LET first == trees1.len < Len(files.trees1)
           line == IF first THEN files.trees1[trees1.len + 1]
                   ELSE files.trees2[trees2.len + 1]
           r == ReadTrees(<<line>>,
                    [prods |-> prods, labels |-> labels,
                     sents |-> IF first THEN sents1 ELSE sents2],
                    IF first THEN trees1 ELSE trees2)
       IN  /\ prods' = r.prods
           /\ labels' = r.labels
           /\ IF first
              THEN trees1' = r.ctrees /\ sents1' = r.sents /\ UNCHANGED <<trees2, sents2>>
              ELSE trees2' = r.ctrees /\ sents2' = r.sents /\ UNCHANGED <<trees1, sents1>>
    /\ UNCHANGED <<pc, files, shards, args>>
    /\ UNCHANGED History
    /\ UNCHANGED PairVars

\* getctrees: indextrees on both treebanks once all productions are known;
\* then extractfragments begins, with 'if trees2 is None: trees2 = trees1'
IndexTreebanks ==
    /\ pc = "read"
    /\ trees1.len = Len(files.trees1) /\ trees2.len = Len(files.trees2)
    /\ trees1' = IndexTrees(trees1, prods)
    /\ trees2' = IF trees2.len > 0 THEN IndexTrees(trees2, prods) ELSE trees1'
    /\ sents2' = IF trees2.len > 0 THEN sents2 ELSE sents1
    /\ pc' = "loop"
    /\ UNCHANGED <<files, shards, prods, args, sents1, labels>>
    /\ UNCHANGED History
    /\ UNCHANGED PairVars

minterms == IF args.twoterms THEN 2 ELSE 0

\* the loop bound without the argument end
StopAtLen == trees1.len

\* min(end or trees1.len, trees1.len)
Stop == Min(IF args.end # 0 THEN args.end ELSE trees1.len, trees1.len)

\* the head of the loop over n: the partner trees the loop over m will visit
BeginTree ==
    /\ pc = "loop"
    /\ n < Stop
    /\ LET a == TreeOf(trees1, n)
           two == twoterminals(a, trees2, contentwordprods(labels), lexicalprods(labels))
       IN  /\ cands' = IF ~args.adjacent /\ args.twoterms THEN two ELSE {}
           /\ todo' = IF args.adjacent
                      THEN (IF n + 1 < trees2.len THEN {n + 1} ELSE {})
                      ELSE IF args.twoterms THEN two
                      ELSE (IF ~args.sents2given THEN n + 1 ELSE 0) .. (trees2.len - 1)
    /\ pc' = "pairs"
    /\ UNCHANGED <<n, inter, fragments, raised, pairs, last, target, counts, theindices>>
    /\ UNCHANGED Inputs
    /\ UNCHANGED PairVars

\* a round of the loop over the candidates of twoterminals: what becomes of
\* candidate m of source tree nn when trees2 has len2 trees
TwotermsRound(m, nn, sents2given, len2) ==
    IF ~sents2given /\ m <= nn THEN "continue"
    ELSE IF m < 0 \/ m >= len2 THEN "raise"
    ELSE "extract"

\* one round of the loop over m: extractfrompair, or the round is skipped,
\* or the index is illegal
ExtractPair ==
    /\ pc = "pairs"
    /\ \E m \in todo :
          /\ (args.adjacent \/ ~args.twoterms) => m = MinOf(todo)
          /\ todo' = todo \ {m}
          /\ IF /\ ~args.adjacent /\ args.twoterms
                /\ TwotermsRound(m, n, args.sents2given, trees2.len) = "continue"
             THEN UNCHANGED <<pc, inter, raised, pairs, last>>
             ELSE IF /\ ~args.adjacent /\ args.twoterms
                     /\ TwotermsRound(m, n, args.sents2given, trees2.len) = "raise"
             THEN /\ pc' = "raised"
                  /\ raised' = "ValueError"
                  /\ UNCHANGED <<inter, pairs, last>>
             ELSE \E garbage \in GarbageSets :
                    LET r == extractfrompair(TreeOf(trees1, n), TreeOf(trees2, m), n,
                                             args.complement, inter, minterms, garbage)
                    IN  /\ inter' = r.inter
                        /\ pairs' = pairs \cup {<<n, m>>}
                        /\ last' = [n |-> n, m |-> m, main |-> r.main,
                                    before |-> r.before, comp |-> r.inter \ r.before,
                                    log |-> r.log, first |-> inter = {},
                                    garbage |-> IF args.complement THEN garbage
                                                ELSE {}]
                        /\ UNCHANGED <<pc, raised>>
    /\ UNCHANGED <<n, fragments, cands, target, counts, theindices>>
    /\ UNCHANGED Inputs
    /\ UNCHANGED PairVars

\* the end of a round of the loop over n
CollectFragments ==
    /\ pc = "pairs"
    /\ todo = {}
    /\ fragments' \in collectfragments(fragments, inter, NodesAt(trees1, n),
                                       sents1[n + 1], labels, args.approx)
    /\ inter' = {}
    /\ n' = n + 1
    /\ pc' = "loop"
    /\ UNCHANGED <<todo, raised, cands, pairs, last, target, counts, theindices>>
    /\ UNCHANGED Inputs
    /\ UNCHANGED PairVars

Return ==
    /\ pc = "loop"
    /\ n >= Stop
    /\ pc' = "returned"
    /\ UNCHANGED <<n, todo, inter, fragments, raised, cands, pairs, last, target,
                   counts, theindices>>
    /\ UNCHANGED Inputs
    /\ UNCHANGED PairVars

TargetTrees == IF target = "trees2" THEN trees2 ELSE trees1

\* exactcounts(trees1, trees1 or trees2, the bitsets of fragments)
ExactCounts ==
    /\ pc = "returned"
    /\ ~args.approx
    /\ target' \in {"trees1"} \cup (IF args.trees2given THEN {"trees2"} ELSE {})
    /\ counts' = exactcounts(trees1, IF target' = "trees2" THEN trees2 ELSE trees1,
                             fragments, FALSE)
    /\ pc' = "counted"
    /\ UNCHANGED <<n, todo, inter, fragments, raised, cands, pairs, last, theindices>>
    /\ UNCHANGED Inputs
    /\ UNCHANGED PairVars

\* the same call with indices=True
ExactIndices ==
    /\ pc = "counted"
    /\ theindices' = exactcounts(trees1, TargetTrees, fragments, TRUE)
    /\ pc' = "done"
    /\ UNCHANGED <<n, todo, inter, fragments, raised, cands, pairs, last, target, counts>>
    /\ UNCHANGED Inputs
    /\ UNCHANGED PairVars

Next ==
    \/ ReadTree
    \/ IndexTreebanks
    \/ BeginTree
    \/ ExtractPair
    \/ CollectFragments
    \/ Return
    \/ ExactCounts
    \/ ExactIndices

Spec == Init /\ [][Next]_vars

\* ----------------------------------------------- the work divided in shards

\* the calls extractfragments(trees1, sents1, offset, end, ...) made on a
\* treebank of len trees: one call on any range, or the two shards of a
\* split at k and then the whole treebank
Plans(len) ==
    UNION {{<< <<o, e>> >> : e \in o..len} : o \in 0..len}
    \cup {<< <<0, k>>, <<k, len>>, <<0, len>> >> : k \in 1..len-1}

\* the treebanks of up to k trees of the corpus in the order of the corpus
OrderedTreebanks(k) ==
    {c \in Treebanks(k) : \A x, y \in 1..Len(c) : x < y => c[x] < c[y]}

InitShards ==
    \E o, e \in 0..MaxTrees :
        /\ InitCall(OrderedTreebanks(MaxTrees), o, e)
        /\ \E plan \in Plans(Len(files.trees1)) :
              /\ plan[1] = <<o, e>>
              /\ shards = [plan |-> Tail(plan), done |-> <<>>]

\* the next call on the same treebanks, with the same flags: its result is
\* a new dictionary
NextCall ==
    /\ pc = "returned"
    /\ shards.plan # <<>>
    /\ shards' = [plan |-> Tail(shards.plan),
                  done |-> Append(shards.done,
                              [offset |-> args.offset, end |-> args.end,
                               stop |-> n, fragments |-> fragments])]
    /\ args' = [args EXCEPT !.offset = shards.plan[1][1], !.end = shards.plan[1][2]]
    /\ n' = shards.plan[1][1]
    /\ fragments' = <<>>
    /\ pairs' = {}
    /\ cands' = {}
    /\ last' = NoPair
    /\ pc' = "loop"
    /\ UNCHANGED <<files, prods, trees1, sents1, trees2, sents2, labels, todo, inter,
                   raised, target, counts, theindices>>
    /\ UNCHANGED PairVars

NextShards ==
    \/ ReadTree
    \/ IndexTreebanks
    \/ BeginTree
    \/ ExtractPair
    \/ CollectFragments
    \/ Return
    \/ NextCall

SpecShards == InitShards /\ [][NextShards]_vars

\* the source trees of the fragments of the result (of a run with approx
\* off, where the result holds the bitsets)
SourcesOf(frags) == {frags[k].id : k \in DOMAIN frags}

\* the call used the trees lo <= n < hi of trees1 as source trees, and only
\* these: it is at one of them while it runs, it has gone through all of
\* them when it returns, and every pair and every fragment is of one of them
UsesRange(lo, hi) ==
    /\ pc = "pairs" => lo <= n /\ n < hi
    /\ pc = "returned" =>
          /\ n = hi
          /\ \A x \in pairs : lo <= x[1] /\ x[1] < hi
          /\ ~args.approx => \A i \in SourcesOf(fragments) : lo <= i /\ i < hi
          /\ lo = hi => fragments = <<>>

\* C12: for all 0 <= offset <= end <= trees1.len, extractfragments(offset,
\* end) uses as source trees exactly the trees offset <= n < end; no other
\* tree contributes a fragment, and an empty range gives an empty result
C12_ShardRange ==
    pc \in {"pairs", "returned"} /\ args.offset <= args.end /\ args.end <= trees1.len
        => UsesRange(args.offset, args.end)

\* C12 as amended: the same when end > 0; end = 0 stands for trees1.len, so
\* that offset = end = 0 is the whole treebank
C12_ShardRangeOrAll ==
    pc \in {"pairs", "returned"} /\ args.offset <= args.end /\ args.end <= trees1.len
        => UsesRange(args.offset, IF args.end = 0 THEN trees1.len ELSE args.end)

\* a shard in the middle of the treebank that returned fragments
C12_Witness ==
    /\ pc = "returned"
    /\ args.offset = 1 /\ args.end = 2 /\ trees1.len = 3
    /\ ~args.approx
    /\ SourcesOf(fragments) = {1}

\* the multiset sum of two histograms
HistogramSum(h1, h2) ==
    [k \in DOMAIN h1 \cup DOMAIN h2 |->
        (IF k \in DOMAIN h1 THEN h1[k] ELSE 0) + (IF k \in DOMAIN h2 THEN h2[k] ELSE 0)]

\* the two shards of a split and the whole treebank have returned
SplitDone ==
    /\ pc = "returned" /\ shards.plan = <<>> /\ Len(shards.done) = 2
    /\ args.approx

\* C13: with approx on, for a split 0 < k < len the histograms of the
\* shards [0, k) and [k, len) add up to the histogram of [0, len), in every
\* mode, with and without complement; nothing is carried from one source
\* tree to the next
C13_ShardsAddUp ==
    /\ SplitDone =>
          HistogramSum(shards.done[1].fragments, shards.done[2].fragments) = fragments
    /\ pc = "loop" => inter = {} /\ todo = {}

\* the same without complement
C13_ShardsAddUpNoComplement ==
    /\ SplitDone /\ ~args.complement =>
          HistogramSum(shards.done[1].fragments, shards.done[2].fragments) = fragments
    /\ pc = "loop" => inter = {} /\ todo = {}

\* ------------------------------------------- the loop over the candidates

\* the twoterms branch of extractfragments for a source tree n, given any
\* set of candidates: trees2 is represented by its number of trees
InitSelect ==
    /\ pc = "select"
    /\ \E g, h \in BOOLEAN :
          /\ h => g
          /\ args = [approx |-> FALSE, complement |-> FALSE, twoterms |-> TRUE,
                     adjacent |-> FALSE, trees2given |-> g, sents2given |-> h,
                     offset |-> 0, end |-> 0]
    /\ \E k \in 1..MaxTrees : trees2 = [len |-> k]
    /\ n \in 0..MaxTrees-1
    /\ ~args.trees2given => n < trees2.len
    /\ cands \in SUBSET (-1..MaxTrees)
    /\ todo = cands
    /\ raised = None
    /\ pairs = {}
    /\ files = None /\ shards = None /\ prods = None /\ trees1 = None /\ sents1 = None
    /\ sents2 = None /\ labels = None /\ inter = {} /\ fragments = <<>>
    /\ last = NoPair /\ target = None /\ counts = <<>> /\ theindices = <<>>
    /\ pa = None /\ pb = None /\ pargs = None /\ matrix = None /\ presult = None

\* one round of 'for m in twoterminals(...)'; the extraction itself is
\* recorded as the pair
SelectRound ==
    /\ pc = "select"
    /\ \E m \in todo :
          LET what == TwotermsRound(m, n, args.sents2given, trees2.len)
          IN  /\ todo' = todo \ {m}
              /\ pc' = IF what = "raise" THEN "raised" ELSE pc
              /\ raised' = IF what = "raise" THEN "ValueError" ELSE raised
              /\ pairs' = IF what = "extract" THEN pairs \cup {<<n, m>>} ELSE pairs
    /\ UNCHANGED <<files, shards, prods, args, trees1, sents1, trees2, sents2, labels, n,
                   inter, fragments, cands, last, target, counts, theindices>>
    /\ UNCHANGED PairVars

NextSelect == SelectRound

SpecSelect == InitSelect /\ [][NextSelect]_vars

C11_RaisesUnlessSkippedFirst ==
    pc \in {"select", "raised"} =>
        /\ (\E m \in cands \ todo :
                /\ m < 0 \/ m >= trees2.len
                /\ args.sents2given \/ m > n)
              => raised = "ValueError"
        /\ \A x \in pairs : x[2] >= 0 /\ x[2] < trees2.len

\* ---------------------------------------------------- claims on the driver

\* the pairs (m, j) at which the fragment w of trees1 matches in ct2, over
\* all trees m of ct2 and all their nodes j
Occurrences(ct1, ct2, w) ==
    {x \in (0..ct2.len-1) \X (0..ct2.maxnodes-1) :
        /\ x[2] < TreeAt(ct2, x[1]).len
        /\ containsbitset(NodesAt(ct1, w.id), NodesAt(ct2, x[1]), w.bits,
                          w.root, x[2])}

\* C2: for every fragment bitset exactcounts returns the number of pairs
\* (tree m, node j) of trees2 at which the fragment matches, counted over
\* all trees and nodes of trees2
C2_CountsAllOccurrences ==
    pc \in {"counted", "done"} =>
        \A k \in DOMAIN fragments :
            counts[k] = Cardinality(Occurrences(trees1, TargetTrees, fragments[k]))

\* the same for the bitsets whose set bits form a subtree at their root
C2_ConnectedCounts ==
    pc \in {"counted", "done"} =>
        \A k \in DOMAIN fragments :
            ConnectedAt(TreeOf(trees1, fragments[k].id), fragments[k]) =>
                counts[k] = Cardinality(Occurrences(trees1, TargetTrees, fragments[k]))

\* the maximal connected regions of a outside covered, as wrapped bitsets
CompRegions(a, covered, nn) ==
    LET un == (0..a.len-1) \ covered
        tops == {i \in un : \A p \in un : i \notin Kids(a, p)}
    IN  {Wrap(ReachSet(a, un, t), t, nn) : t \in tops}

\* C3: with complement on, the complement fragments added for a pair (n, m)
\* are exactly the maximal connected regions of trees1[n] not covered by the
\* maximal common fragments of that pair, with root the top of the region
\* and id n
C3_ComplementPerPair ==
    (args.complement /\ last.n >= 0) =>
        last.comp = CompRegions(TreeOf(trees1, last.n), UnionBits(last.main), last.n)

\* the same for the first partner of a tree when malloc returned zeroed memory
C3_FirstPartnerNoGarbage ==
    (args.complement /\ last.n >= 0 /\ last.first /\ last.garbage = {}) =>
        last.comp = CompRegions(TreeOf(trees1, last.n), UnionBits(last.main), last.n)

\* C7: exactcounts against the treebank the fragments were extracted from,
\* in non-approximate mode, returns a count of at least 1 for every fragment
C7_CountAtLeastOne ==
    (pc \in {"counted", "done"} /\ target = "trees1") =>
        \A k \in DOMAIN fragments : counts[k] >= 1

\* fragments of two trees were counted against their treebank, among them
\* a complement fragment, one that occurs more than once, and one only once
C7_Witness ==
    /\ pc = "counted"
    /\ target = "trees1"
    /\ trees1.len = 2
    /\ args.complement
    /\ \E k \in DOMAIN fragments : counts[k] >= 2
    /\ \E k \in DOMAIN fragments : counts[k] = 1

\* the number of nodes j of tree m of ct2 at which the fragment w matches
AnchorsIn(ct1, ct2, w, m) ==
    Cardinality({x \in Occurrences(ct1, ct2, w) : x[1] = m})

RECURSIVE SumOf(_)
SumOf(f) ==
    IF DOMAIN f = {} THEN 0
    ELSE LET x == CHOOSE y \in DOMAIN f : TRUE
         IN  f[x] + SumOf([y \in DOMAIN f \ {x} |-> f[y]])

\* C8: with indices=True exactcounts returns for each fragment the multiset
\* that maps every tree of trees2 with an occurrence to the number of nodes
\* at which the fragment matches, and its multiplicities sum to the count
\* returned with indices=False
C8_IndicesMultiset ==
    pc = "done" =>
        \A k \in DOMAIN fragments :
            LET w == fragments[k]
                occ == {m \in 0..TargetTrees.len-1 :
                           AnchorsIn(trees1, TargetTrees, w, m) > 0}
            IN  /\ DOMAIN theindices[k] = occ
                /\ \A m \in occ :
                      theindices[k][m] = AnchorsIn(trees1, TargetTrees, w, m)
                /\ SumOf(theindices[k]) = counts[k]

\* the part of C8 that compares the two modes
C8_SumIsCount ==
    pc = "done" =>
        \A k \in DOMAIN fragments : SumOf(theindices[k]) = counts[k]

\* C9: in all-pairs mode the driver extracts from exactly the pairs (n, m)
\* with n < m when the second treebank is the first one, and from the full
\* cross product when a distinct second treebank is supplied
C9_AllPairs ==
    (pc = "returned" /\ ~args.adjacent /\ ~args.twoterms) =>
        pairs = IF files.trees2 # <<>>
                THEN (0..trees1.len-1) \X (0..trees2.len-1)
                ELSE {x \in (0..trees1.len-1) \X (0..trees1.len-1) : x[1] < x[2]}

\* what the driver does: the choice rests on sents2, not on trees2
C9_PairsBySents ==
    (pc = "returned" /\ ~args.adjacent /\ ~args.twoterms) =>
        pairs = {x \in (0..trees1.len-1) \X (0..trees2.len-1) :
                    args.sents2given \/ x[1] < x[2]}

\* tree b has a node with the production of the content word i of a and
\* another node with the production of the lexical terminal j of a
SharesTwo(a, b, content, lexic) ==
    \E i, j \in 0..a.len-1 : \E ib, jb \in 0..b.len-1 :
        /\ i # j /\ ib # jb
        /\ a.nodes[i].left < 0 /\ a.nodes[i].prod \in content
        /\ a.nodes[j].left < 0 /\ a.nodes[j].prod \in lexic
        /\ b.nodes[ib].prod = a.nodes[i].prod
        /\ b.nodes[jb].prod = a.nodes[j].prod

\* C10: twoterminals returns exactly the trees of trees2 that share with a
\* two lexical items, one of them a content word
C10_TwoTerminals ==
    (pc = "pairs" /\ args.twoterms /\ ~args.adjacent) =>
        cands = {m \in 0..trees2.len-1 :
                    SharesTwo(TreeOf(trees1, n), TreeOf(trees2, m),
                              contentwordprods(labels), lexicalprods(labels))}

\* the same for the trees a in which no two terminals have the same production
C10_DistinctProductions ==
    (pc = "pairs" /\ args.twoterms /\ ~args.adjacent
     /\ \A i, j \in 0..TreeAt(trees1, n).len-1 :
            (NodesAt(trees1, n)[i].left < 0
             /\ NodesAt(trees1, n)[i].prod = NodesAt(trees1, n)[j].prod) => i = j) =>
        cands = {m \in 0..trees2.len-1 :
                    SharesTwo(TreeOf(trees1, n), TreeOf(trees2, m),
                              contentwordprods(labels), lexicalprods(labels))}

\* the string of a wrapped bitset of trees1
StringOf(w) ==
    getsubtree(NodesAt(trees1, w.id), w.bits, labels, sents1[w.id + 1], w.root)

\* the maximal common fragments of the trees i and j of trees1, in tree i
MaximalCommon(i, j) ==
    extractfrompair(TreeOf(trees1, i), TreeOf(trees1, j), i, FALSE, {}, 0, {}).main

\* the fragment w occurs once in tree i, once in tree j and in no other tree
OnceInEach(w, i, j) ==
    LET occ == Occurrences(trees1, trees1, w)
    IN  /\ Cardinality(occ) = 2
        /\ \E x, y \in occ : x[1] = i /\ y[1] = j

\* a treebank against itself, all pairs
SelfAllPairs == files.trees2 = <<>> /\ ~args.adjacent /\ ~args.twoterms

\* the count of every fragment that is a maximal common fragment of two
\* trees of the treebank, once in each and in no other tree: the count of
\* the result with approx on, the count of exactcounts with approx off
TwoTreesCount(approxcount, exactcount) ==
    (SelfAllPairs /\ pc \in {"returned", "counted"}) =>
        \A i, j \in 0..trees1.len-1 : i < j =>
            \A w \in MaximalCommon(i, j) : OnceInEach(w, i, j) =>
                /\ StringOf(w) \in DOMAIN fragments
                /\ pc = "returned" /\ args.approx =>
                      fragments[StringOf(w)] = approxcount
                /\ pc = "counted" => counts[StringOf(w)] = exactcount

\* C14: when a treebank is extracted against itself in all-pairs mode, with
\* trees2 omitted or the same treebank passed, a fragment that is the
\* maximal common fragment of exactly two trees, once in each, is emitted
\* with approximate count 2 and exact count 2
C14_TwoTreesCountTwo == TwoTreesCount(2, 2)

\* what the code does without complement: the approximate count is 1 when
\* sents2 is omitted, as each pair is visited once
C14_ApproxCountsPairs ==
    ~args.complement => TwoTreesCount(IF args.sents2given THEN 2 ELSE 1, 2)

\* ------------------------------------------------------------------ getsent

MaxIdx == 3

\* the decimal numbers of a fragment string, as they are written
Digits == <<"0", "1", "2", "3", "4", "5", "6", "7", "8", "9">>

IsNumber(t) == \E i \in 1..Len(Digits) : Digits[i] = t

\* int(x) of a number of the string, and ' %d' % m without the space
ParseInt(t) == (CHOOSE i \in 1..Len(Digits) : Digits[i] = t) - 1

FormatInt(m) == Digits[m + 1]

\* FRONTIERRE.findall(frag): the places of ' ([0-9]+):([0-9]+)\b'
FRONTIERRE(frag) ==
    {p \in 1..Len(frag) - 3 :
        /\ frag[p] = " " /\ IsNumber(frag[p + 1])
        /\ frag[p + 2] = ":" /\ IsNumber(frag[p + 3])}

\* the places of ' ([0-9]+)\)' that '\([^(]+' can come before
TermAt(frag, p) ==
    /\ p + 2 <= Len(frag)
    /\ frag[p] = " " /\ IsNumber(frag[p + 1]) /\ frag[p + 2] = ")"
    /\ \E q \in 1..p-2 : frag[q] = "(" /\ \A r \in q+1..p-1 : frag[r] # "("

\* TERMINDICESRE.findall(frag): the places of the numbers matched by
\* '\([^(]+ ([0-9]+)\)'; the match is greedy, so that of two places after
\* the same opening bracket the last one is found
TERMINDICESRE(frag) ==
    {p \in 1..Len(frag) :
        /\ TermAt(frag, p)
        /\ ~\E p2 \in p+1..Len(frag) :
              TermAt(frag, p2) /\ \A r \in p..p2 : frag[r] # "("}

\* is there ':[0-9]+' after the number at p + 1
HasEnd(frag, p) ==
    p + 3 <= Len(frag) /\ frag[p + 2] = ":" /\ IsNumber(frag[p + 3])

\* the substitution with a pattern that leaves out the end of the span
RECURSIVE SubstituteKeepEnd(_, _, _)
SubstituteKeepEnd(frag, p, leafmap) ==
    IF p > Len(frag) THEN <<>>
    ELSE IF frag[p] = " " /\ p + 1 <= Len(frag) /\ IsNumber(frag[p + 1])
    THEN <<" ", FormatInt(leafmap[ParseInt(frag[p + 1])])>>
         \o SubstituteKeepEnd(frag, p + 2, leafmap)
    ELSE <<frag[p]>> \o SubstituteKeepEnd(frag, p + 1, leafmap)

\* FRONTIERORTERMRE.sub(repl(leafmap), frag), from place p on:
\* ' ([0-9]+)(?::[0-9]+)?\b' is replaced by leafmap[int(group 1)]
RECURSIVE Substitute(_, _, _)
Substitute(frag, p, leafmap) ==
    IF p > Len(frag) THEN <<>>
    ELSE IF frag[p] = " " /\ p + 1 <= Len(frag) /\ IsNumber(frag[p + 1])
    THEN <<" ", FormatInt(leafmap[ParseInt(frag[p + 1])])>>
         \o Substitute(frag, IF HasEnd(frag, p) THEN p + 4 ELSE p + 2, leafmap)
    ELSE <<frag[p]>> \o Substitute(frag, p + 1, leafmap)

\* the numbers the substitution looks up
LookedUp(frag) ==
    {ParseInt(frag[p + 1]) : p \in {q \in 1..Len(frag) - 1 :
                                      frag[q] = " " /\ IsNumber(frag[q + 1])}}

\* the loop without the test 'n != maxl'
RECURSIVE GetSentLoopGapAtEnd(_, _, _, _, _, _)
GetSentLoopGapAtEnd(keys, spans, leaves, sent, maxl, acc) ==
    IF keys = {} THEN acc
    ELSE LET nn == MinOf(keys)
             gap == spans[nn] \notin DOMAIN spans
             item == Append(acc.newsent, IF nn \in leaves THEN sent[nn + 1] ELSE None)
         IN  GetSentLoopGapAtEnd(keys \ {nn}, spans, leaves, sent, maxl,
                [m |-> acc.m + (IF gap THEN 2 ELSE 1),
                 newsent |-> IF gap THEN Append(item, None) ELSE item,
                 leafmap |-> acc.leafmap @@ (nn :> acc.m)])

\* the loop 'for n in sorted(spans)' of getsent
RECURSIVE GetSentLoop(_, _, _, _, _, _)
GetSentLoop(keys, spans, leaves, sent, maxl, acc) ==
    IF keys = {} THEN acc
    ELSE LET nn == MinOf(keys)
             gap == spans[nn] \notin DOMAIN spans /\ nn # maxl
             item == Append(acc.newsent, IF nn \in leaves THEN sent[nn + 1] ELSE None)
         IN  GetSentLoop(keys \ {nn}, spans, leaves, sent, maxl,
                [m |-> acc.m + (IF gap THEN 2 ELSE 1),
                 newsent |-> IF gap THEN Append(item, None) ELSE item,
                 leafmap |-> acc.leafmap @@ (nn :> acc.m)])

\* getsent(frag, sent): the fragment with its indices renumbered and the
\* sentence of the words it contains
getsent(frag, sent) ==
    LET frontier == [s \in {ParseInt(frag[p + 1]) : p \in FRONTIERRE(frag)} |->
                        LET at == MaxOf({p \in FRONTIERRE(frag) :
                                            ParseInt(frag[p + 1]) = s})
                        IN  ParseInt(frag[at + 3]) + 1]
        leaves == {ParseInt(frag[p + 1]) : p \in TERMINDICESRE(frag)}
        spans == [k \in DOMAIN frontier \cup leaves |->
                     IF k \in leaves THEN k + 1 ELSE frontier[k]]
    IN  IF DOMAIN spans = {} THEN [raised |-> "ValueError"]
        ELSE LET r == GetSentLoop(DOMAIN spans, spans, leaves, sent,
                                  MaxOf(DOMAIN spans),
                                  [m |-> 0, newsent |-> <<>>, leafmap |-> <<>>])
             IN  IF ~(LookedUp(frag) \subseteq DOMAIN r.leafmap)
                 THEN [raised |-> "KeyError"]
                 ELSE [raised |-> None,
                       frag |-> Substitute(frag, 1, r.leafmap),
                       newsent |-> r.newsent]

\* the sentence of the tree a fragment is of
Words == <<"w0", "w1", "w2", "w3", "w4", "w5">>

\* what the words 0..MaxIdx of the sentence are in a fragment: "leaf" is a
\* terminal of the fragment, "span" the first word of a frontier span and
\* "cont" a further word of it, "none" a word outside the fragment
Layouts ==
    {lay \in [0..MaxIdx -> {"none", "leaf", "span", "cont"}] :
        /\ \A k \in 0..MaxIdx :
              lay[k] = "cont" => k > 0 /\ lay[k - 1] \in {"span", "cont"}
        /\ \E k \in 0..MaxIdx : lay[k] \in {"leaf", "span"}}

ItemsOf(lay) == {k \in 0..MaxIdx : lay[k] \in {"leaf", "span"}}

\* the last word of the item that starts at k
EndOf(lay, k) ==
    MaxOf({e \in k..MaxIdx : \A x \in k+1..e : lay[x] = "cont"})

\* the orders in which the items can come in the string of a discontinuous
\* tree
OrdersOf(lay) ==
    {o \in [1..Cardinality(ItemsOf(lay)) -> ItemsOf(lay)] :
        \A x, y \in DOMAIN o : o[x] = o[y] => x = y}

\* the items in their nodes: a terminal is a node, and the spans next to
\* each other are the yield of one frontier node when grouped, else each is
RECURSIVE NodesOf(_, _, _, _, _)
NodesOf(lay, order, grouped, i, acc) ==
    IF i > Len(order) THEN acc
    ELSE LET k == order[i]
             join == /\ grouped /\ acc # <<>> /\ lay[k] = "span"
                     /\ lay[acc[Len(acc)][1]] = "span"
         IN  NodesOf(lay, order, grouped, i + 1,
                IF join THEN [acc EXCEPT ![Len(acc)] = Append(@, k)]
                ELSE Append(acc, <<k>>))

\* how the items are written by getsubtree with sent = None: 'k' for a
\* terminal and 'a:b' for a range of the yield of a frontier node
Written(lay) ==
    [k \in ItemsOf(lay) |->
        IF lay[k] = "leaf" THEN <<FormatInt(k)>>
        ELSE <<FormatInt(k), ":", FormatInt(EndOf(lay, k))>>]

RECURSIVE Ranges(_, _, _)
Ranges(txt, node, i) ==
    IF i > Len(node) THEN <<>>
    ELSE (IF i > 1 THEN <<" ">> ELSE <<>>) \o txt[node[i]] \o Ranges(txt, node, i + 1)

\* the string of a node: '(T k)' for a terminal and '(F a:b c:d)' for a
\* frontier node
NodeString(lay, txt, node) ==
    <<"(", IF lay[node[1]] = "leaf" THEN "T" ELSE "F", " ">>
    \o Ranges(txt, node, 1) \o <<")">>

\* the string of a binary tree over the nodes
RECURSIVE TreeString(_, _, _, _)
TreeString(lay, txt, nodes, i) ==
    IF i = Len(nodes) THEN NodeString(lay, txt, nodes[i])
    ELSE <<"(", "R", " ">> \o NodeString(lay, txt, nodes[i]) \o <<" ">>
         \o TreeString(lay, txt, nodes, i + 1) \o <<")">>

\* the string of the fragment with its items written as txt
FragString(lay, txt, order, grouped) ==
    <<"(", "ROOT", " ">>
    \o TreeString(lay, txt, NodesOf(lay, order, grouped, 1, <<>>), 1) \o <<")">>

\* the calls pygetsent(frag, sent) for the fragments of the layouts
SentArgs ==
    UNION {{[lay |-> lay, order |-> o, grouped |-> g,
             frag |-> FragString(lay, Written(lay), o, g),
             sent |-> SubSeq(Words, 1, MaxIdx + 1)] :
            o \in OrdersOf(lay), g \in BOOLEAN} : lay \in Layouts}

InitSent ==
    /\ pc = "getsent"
    /\ pargs \in SentArgs
    /\ presult = None
    /\ pa = None /\ pb = None /\ matrix = None
    /\ InitUnused

\* pygetsent(frag, sent)
PyGetSent ==
    /\ pc = "getsent"
    /\ presult' = getsent(pargs.frag, pargs.sent)
    /\ pc' = "gotsent"
    /\ UNCHANGED <<pa, pb, pargs, matrix>>
    /\ UNCHANGED Unused

NextSent == PyGetSent

SpecSent == InitSent /\ [][NextSent]_vars

\* the new index of item k: 0 for the first item, one more than that of
\* the item before when that one ends right before k, two more otherwise
RECURSIVE NewIndex(_, _)
NewIndex(lay, k) ==
    IF k = MinOf(ItemsOf(lay)) THEN 0
    ELSE LET before == MaxOf({x \in ItemsOf(lay) : x < k})
         IN  NewIndex(lay, before) + (IF EndOf(lay, before) + 1 = k THEN 1 ELSE 2)

\* C15: getsent renumbers the terminal indices and the starts of the
\* frontier spans in their order from 0, consecutive items getting
\* consecutive numbers when the earlier one ends right before the later one
\* and numbers that differ by 2 otherwise; every leaf 'k' and every span
\* 'k:e' of the string is replaced by the new index of k and nothing else
\* in the string changes
C15_Renumbered ==
    pc = "gotsent" =>
        /\ presult.raised = None
        /\ presult.frag =
              FragString(pargs.lay,
                         [k \in ItemsOf(pargs.lay) |-> <<FormatInt(NewIndex(pargs.lay, k))>>],
                         pargs.order, pargs.grouped)

\* a fragment with two adjacent items and a gap of two words, the last item
\* first in the string
C15_Witness ==
    /\ pc = "gotsent"
    /\ pargs.lay[0] = "span" /\ pargs.lay[1] = "leaf"
    /\ pargs.lay[2] = "none" /\ pargs.lay[MaxIdx] = "leaf"
    /\ pargs.order[1] = MaxIdx
    /\ presult.raised = None
    /\ presult.frag # pargs.frag

\* the numbers of a string
NumbersOf(frag) == {ParseInt(frag[p]) : p \in {q \in 1..Len(frag) : IsNumber(frag[q])}}

\* C16: the sentence returned by getsent has one position for every item
\* and one for every gap between items: the position of a terminal k holds
\* sent[k], the positions of frontier spans and of gaps hold None, nothing
\* follows the last item, and every index of the returned string is a
\* position of the sentence
C16_NewSentence ==
    pc = "gotsent" =>
        LET items == ItemsOf(pargs.lay)
            new == [k \in items |-> NewIndex(pargs.lay, k)]
        IN  /\ presult.raised = None
            /\ Len(presult.newsent) = new[MaxOf(items)] + 1
            /\ \A k \in items :
                  presult.newsent[new[k] + 1] =
                      IF pargs.lay[k] = "leaf" THEN pargs.sent[k + 1] ELSE None
            /\ \A i \in 1..Len(presult.newsent) :
                  (~\E k \in items : new[k] + 1 = i) => presult.newsent[i] = None
            /\ \A x \in NumbersOf(presult.frag) : x < Len(presult.newsent)

\* a sentence with a word, a frontier span and a gap
C16_Witness ==
    /\ pc = "gotsent"
    /\ pargs.lay[0] = "leaf" /\ pargs.lay[1] = "none" /\ pargs.lay[2] = "span"
    /\ presult.raised = None
    /\ Len(presult.newsent) >= 3
    /\ presult.newsent[1] = "w0" /\ presult.newsent[2] = None
    /\ presult.newsent[3] = None

\* ------------------------------------------- completebitsets, coverbitsets

\* the trees of the treebanks given to completebitsets and coverbitsets:
\* trees as before, a tree of one node, and a tree with a pre-terminal
\* without a word
BitsetCorpus ==
    << Library[1], Library[2], Library[4],
       \* (DT the)
       Pre(DT, "the"),
       \* (NP (DT the) (NN ))
       Bin(NP, Pre(DT, "the"), Open(NN)) >>

\* the treebanks of up to k trees, a tree any number of times
BitsetTreebanks(k) == UNION {[1..len -> 1..Len(BitsetCorpus)] : len \in 1..k}

\* two treebanks read with the same labels and prods, or one
InitBitsets ==
    /\ pc = "read"
    /\ \E c \in BitsetTreebanks(MaxTrees) : \E k \in 1..Len(c) :
          files = [trees1 |-> [x \in 1..k |-> BitsetCorpus[c[x]]],
                   trees2 |-> [x \in 1..Len(c)-k |-> BitsetCorpus[c[k + x]]]]
    /\ shards = NoShards
    /\ args = None
    /\ prods = <<>>
    /\ labels = <<>>
    /\ trees1 = Alloc(AllocTrees, AllocNodes)
    /\ sents1 = <<>>
    /\ trees2 = Alloc(AllocTrees, AllocNodes)
    /\ sents2 = <<>>
    /\ n = 0 /\ todo = {} /\ inter = {} /\ fragments = <<>> /\ raised = None
    /\ cands = {} /\ pairs = {} /\ last = NoPair /\ target = None
    /\ counts = <<>> /\ theindices = <<>>
    /\ pa = None /\ pb = None /\ pargs = None /\ matrix = None /\ presult = None

\* the bitset of completebitsets for tree m, with node 0 as the root
CompleteBitsetRootZero(trees, sents, m) ==
    LET nodes == NodesAt(trees, m)
    IN  Wrap({i \in 0..TreeAt(trees, m).len-1 :
                 nodes[i].left >= 0 \/ sents[m + 1][termidx(nodes[i].left) + 1] # None},
             0, m)

\* the bitset completebitsets makes for tree m: the nodes but the
\* pre-terminals without a word, the root of the tree
CompleteBitset(trees, sents, m) ==
    LET nodes == NodesAt(trees, m)
    IN  Wrap({i \in 0..TreeAt(trees, m).len-1 :
                 nodes[i].left >= 0 \/ sents[m + 1][termidx(nodes[i].left) + 1] # None},
             TreeAt(trees, m).root, m)

\* completebitsets(trees, sents, labels, maxnodes), discontinuous = False:
\* the entry of a string is that of the last tree with this string
completebitsets(trees, sents, labs) ==
    LET bitset == [m \in 0..trees.len-1 |-> CompleteBitset(trees, sents, m)]
        frag == [m \in 0..trees.len-1 |->
                    getsubtree(NodesAt(trees, m), bitset[m].bits, labs, sents[m + 1],
                               bitset[m].root)]
    IN  [k \in {frag[m] : m \in 0..trees.len-1} |->
            bitset[MaxOf({m \in 0..trees.len-1 : frag[m] = k})]]

\* the first node of tree m with production p
FirstWithProd(trees, m, p) ==
    MinOf({i \in 0..TreeAt(trees, m).len-1 : NodesAt(trees, m)[i].prod = p})

\* next(iter(treeindices)): an arbitrary member of the set
ArbitraryMember(set) == set

\* coverbitsets(trees, sents, labels, maxnodes, discontinuous = False) where
\* pick[p] is the tree taken for production p; getsubtree fails on the word
\* of a pre-terminal without a word
coverbitsets(trees, sents, labs, pick) ==
    LET occurring == {p \in 0..Len(trees.treeswithprod)-1 : TreesWithProd(trees, p) # {}}
        bitset == [p \in occurring |->
                      LET i == FirstWithProd(trees, pick[p], p)
                      IN  Wrap({i}, i, pick[p])]
        frag == [p \in occurring |->
                    getsubtree(NodesAt(trees, pick[p]), bitset[p].bits, labs,
                               sents[pick[p] + 1], bitset[p].root)]
        noword == {p \in occurring :
                      LET node == NodesAt(trees, pick[p])[bitset[p].root]
                      IN  node.left < 0
                          /\ sents[pick[p] + 1][termidx(node.left) + 1] = None}
    IN  IF noword # {} THEN [raised |-> "AttributeError", result |-> <<>>]
        ELSE [raised |-> None,
              result |-> [k \in {frag[p] : p \in occurring} |->
                             bitset[MaxOf({p \in occurring : frag[p] = k})]]]

CompleteBitsets ==
    /\ pc = "loop"
    /\ presult' = completebitsets(trees1, sents1, labels)
    /\ pc' = "complete"
    /\ UNCHANGED <<n, todo, inter, fragments, raised, cands, pairs, last, target,
                   counts, theindices, pa, pb, pargs, matrix>>
    /\ UNCHANGED Inputs

CoverBitsets ==
    /\ pc = "loop"
    /\ \E pick \in [0..Len(prods)-1 -> 0..trees1.len-1] :
          /\ \A p \in DOMAIN pick :
                /\ TreesWithProd(trees1, p) # {} =>
                      pick[p] \in ArbitraryMember(TreesWithProd(trees1, p))
                /\ TreesWithProd(trees1, p) = {} => pick[p] = 0
          /\ LET r == coverbitsets(trees1, sents1, labels, pick)
             IN  /\ presult' = r.result
                 /\ raised' = r.raised
                 /\ pargs' = pick
    /\ pc' = "cover"
    /\ UNCHANGED <<n, todo, inter, fragments, cands, pairs, last, target,
                   counts, theindices, pa, pb, matrix>>
    /\ UNCHANGED Inputs

NextBitsets ==
    \/ ReadTree
    \/ IndexTreebanks
    \/ CompleteBitsets
    \/ CoverBitsets

SpecBitsets == InitBitsets /\ [][NextBitsets]_vars

\* the bracket string of a tree of a treebank file, with single spaces
RECURSIVE Bracket(_)
Bracket(t) ==
    <<"(">> \o t.label \o <<" ">>
    \o (IF t.children = <<>> THEN t.word
        ELSE Bracket(t.children[1])
             \o (IF Len(t.children) = 2 THEN <<" ">> \o Bracket(t.children[2])
                 ELSE <<>>))
    \o <<")">>

\* the number of nodes of a tree that are not pre-terminals without a word
RECURSIVE NodeCount(_)
NodeCount(t) ==
    IF t.children = <<>> THEN (IF t.word = <<>> THEN 0 ELSE 1)
    ELSE 1 + NodeCount(t.children[1])
           + (IF Len(t.children) = 2 THEN NodeCount(t.children[2]) ELSE 0)

\* C17: for every tree n of the treebank completebitsets returns an entry
\* whose key is the string of the whole tree n and whose bitset holds every
\* node of the tree but the pre-terminals whose terminal is None in the
\* sentence, with the root of the tree as its root; the string of the
\* bitset is the bracket string the tree was read from
C17_CompleteRoundTrip ==
    pc = "complete" =>
        \A m \in 0..trees1.len-1 :
            LET key == Bracket(files.trees1[m + 1])
                nodes == NodesAt(trees1, m)
            IN  /\ key \in DOMAIN presult
                /\ presult[key].bits =
                      {i \in 0..TreeAt(trees1, m).len-1 :
                          ~(nodes[i].left < 0
                            /\ sents1[m + 1][termidx(nodes[i].left) + 1] = None)}
                /\ Cardinality(presult[key].bits) = NodeCount(files.trees1[m + 1])
                /\ presult[key].root = TreeAt(trees1, m).root
                /\ getsubtree(nodes, presult[key].bits, labels, sents1[m + 1],
                              presult[key].root) = key

\* a treebank with a tree that has a pre-terminal without a word, whose
\* root is not its first node, and with the same tree twice
C17_Witness ==
    /\ pc = "complete"
    /\ \E m \in 0..trees1.len-1 :
          /\ files.trees1[m + 1] = BitsetCorpus[5]
          /\ TreeAt(trees1, m).root # 0
          /\ Cardinality(presult[Bracket(BitsetCorpus[5])].bits) = 2
    /\ \E x, y \in 1..Len(files.trees1) : x # y /\ files.trees1[x] = files.trees1[y]

\* the productions that occur in trees1
OccurringProds == {p \in 0..Len(prods)-1 : TreesWithProd(trees1, p) # {}}

\* the result has one entry for every production that occurs and no other:
\* a bitset with one bit, at a node with this production of a tree in
\* treeswithprod, which is its root, the tree its id
OnePerProduction ==
    /\ raised = None
    /\ Cardinality(DOMAIN presult) = Cardinality(OccurringProds)
    /\ \A k \in DOMAIN presult :
          LET w == presult[k]
          IN  /\ w.id \in 0..trees1.len-1
              /\ w.root \in 0..TreeAt(trees1, w.id).len-1
              /\ w.bits = {w.root}
              /\ NodesAt(trees1, w.id)[w.root].prod \in OccurringProds
    /\ \A p \in OccurringProds :
          \E k \in DOMAIN presult :
              /\ NodesAt(trees1, presult[k].id)[presult[k].root].prod = p
              /\ presult[k].id \in TreesWithProd(trees1, p)

\* C18: coverbitsets returns exactly one fragment for every production that
\* occurs in the treebank: a bitset with one bit, at a node i with this
\* production of a tree n of treeswithprod[p], with root i and id n; the
\* productions that do not occur in this treebank have no entry
C18_OnePerProduction == pc = "cover" => OnePerProduction

\* the same for the treebanks in which every pre-terminal has a word
C18_OnePerProductionWithWords ==
    (pc = "cover" /\ \A m \in 1..Len(sents1) : \A i \in 1..Len(sents1[m]) :
                        sents1[m][i] # None)
        => OnePerProduction

\* ------------------------------------------------ the two orders of a pair

\* the treebank the trees pa and pb were read from
PairSource ==
    LET xy == CHOOSE xy \in (1..Len(Library)) \X (1..Len(Library)) :
                  PairOf(xy[1], xy[2]) = [a |-> pa, b |-> pb]
    IN  readtreebank(<<Library[xy[1]], Library[xy[2]]>>, <<>>, <<>>)

\* the strings of the fragments extractfrompair adds for tree a against b
\* with minterms = 0, the bitsets being over a, whose sentence is asent
StringsOf(a, b, asent, labs) ==
    LET m0 == fasttreekernel(a.nodes, b.nodes, a.len, b.len, ZeroMatrix(b.len))
    IN  {getsubtree(a.nodes, w.bits, labs, asent, w.root) :
            w \in ExtractResults(m0, a, b, 0, 0, {}).results}

\* C19: for a pair of trees a and b, with minterms = 0, the set of the
\* strings of the fragments extracted from a against b is the set of the
\* strings of the fragments extracted from b against a
C19_SymmetricStrings ==
    (pc \in {"complement", "done"} /\ pargs.minterms = 0) =>
        LET r == PairSource
        IN  {getsubtree(pa.nodes, w.bits, r.labels, r.sents[1], w.root) :
                w \in presult.main}
            = StringsOf(pb, pa, r.sents[2], r.labels)

\* a pair of different trees with a fragment whose root is not the same
\* node in the two trees, and more fragments from a than strings
C19_Witness ==
    /\ pc = "done" /\ pargs.minterms = 0
    /\ pa # pb
    /\ \E e \in presult.log : e.i # e.j
    /\ Cardinality(presult.main) > Cardinality(StringsOf(pb, pa, PairSource.sents[2],
                                                         PairSource.labels))

\* --------------------------------------------------------------- Ctrees.add

\* number of calls of add on an arena
MaxAdds == 3

\* a node of the list given to add: a Tree with its production and its
\* children, which are a terminal index or Tree nodes with their idx
Term(p, k) == [tree |-> TRUE, prod |-> p, kids |-> <<[int |-> TRUE, v |-> k]>>]
Unary(p, c) == [tree |-> TRUE, prod |-> p, kids |-> <<[int |-> FALSE, v |-> c]>>]
Binary(p, c, d) ==
    [tree |-> TRUE, prod |-> p,
     kids |-> <<[int |-> FALSE, v |-> c], [int |-> FALSE, v |-> d]>>]

\* the dictionary prods, as the sequence of its keys in the order of their
\* ids
KnownProds == <<"A", "B", "C">>

\* prods[a.prod]
ProdId(prods0, p) == IndexOf(prods0, p) - 1

\* well-formed trees of one, two and three nodes, sorted by production,
\* the root first
GoodTrees ==
    { <<Term("A", 0)>>,
      <<Unary("A", 1), Term("B", 0)>>,
      <<Binary("A", 1, 2), Term("B", 0), Term("C", 1)>> }

\* what can be wrong with a node: it is not a Tree, it has no children or
\* three, its production is not in prods
Defects(node) ==
    { [node EXCEPT !.tree = FALSE],
      [node EXCEPT !.kids = <<>>],
      [node EXCEPT !.kids = @ \o @ \o @],
      [node EXCEPT !.prod = "unknown"] }

\* the trees with one defective node
BadTrees ==
    UNION {UNION {{[t EXCEPT ![q] = d] : d \in Defects(t[q])} : q \in 1..Len(t)} :
           t \in GoodTrees}

\* what an uninitialised field right of a Node may hold
GarbageRights == {-1, 2}

\* the Node structs of the array from slot off + 1 on after copynodes wrote
\* the nodes 1..upto of tree: a slot that was never written holds garbage[k]
\* in the field copynodes does not set (right of a terminal)
CopyInto(nodes, off, tree, prods0, upto, garbage) ==
    [p \in 1..Max(Len(nodes), off + upto) |->
        IF p <= off \/ p > off + upto THEN nodes[p]
        ELSE LET a == tree[p - off]
                 old == IF p <= Len(nodes) THEN nodes[p].right ELSE garbage[p - off]
             IN  IF a.kids[1].int
                 THEN [prod |-> ProdId(prods0, a.prod), left |-> -a.kids[1].v - 1,
                       right |-> old]
                 ELSE [prod |-> ProdId(prods0, a.prod), left |-> a.kids[1].v,
                       right |-> IF Len(a.kids) = 2 THEN a.kids[2].v ELSE -1]]

\* is node a of a tree accepted by copynodes, and what is raised if not
Rejects(a, prods0) ==
    IF ~a.tree THEN "ValueError"
    ELSE IF ~(1 <= Len(a.kids) /\ Len(a.kids) <= 2) THEN "ValueError"
    ELSE IF ~Occurs(prods0, a.prod) THEN "KeyError"
    ELSE None

\* copynodes(tree, prods, &self.nodes[off]): the nodes before the first one
\* that is rejected are written
copynodes(tree, prods0, nodes, off, garbage) ==
    LET bad == {q \in 1..Len(tree) : Rejects(tree[q], prods0) # None}
    IN  IF bad = {}
        THEN [raised |-> None,
              nodes |-> CopyInto(nodes, off, tree, prods0, Len(tree), garbage)]
        ELSE [raised |-> Rejects(tree[MinOf(bad)], prods0),
              nodes |-> CopyInto(nodes, off, tree, prods0, MinOf(bad) - 1, garbage)]

\* Ctrees.add(tree, prods); rootidx is tree[0].rootidx.  The record of the
\* tree is written at trees[len], its nodes from nodes[numnodes] on; when
\* copynodes raises, len and offset of the record and the nodes before the
\* rejected one have been written
Add(self, tree, rootidx, prods0, garbage) ==
    IF self.max = 0 THEN [raised |-> "ValueError", self |-> self]
    ELSE
    LET c == IF self.len >= self.max \/ self.nodesleft < Len(tree)
             THEN Realloc(self, self.len + 1, Len(tree)) ELSE self
        slot == [offset |-> c.numnodes, len |-> Len(tree),
                 root |-> IF Len(c.trees) > c.len THEN c.trees[c.len + 1].root
                          ELSE garbage[1]]
        r == copynodes(tree, prods0, c.nodes, c.numnodes, garbage)
    IN  IF r.raised # None
        THEN [raised |-> r.raised,
              self |-> [c EXCEPT !.trees = SubSeq(@, 1, c.len) \o <<slot>>,
                                 !.nodes = r.nodes]]
        ELSE [raised |-> None,
              self |-> [c EXCEPT
                  !.trees = SubSeq(@, 1, c.len) \o <<[slot EXCEPT !.root = rootidx]>>,
                  !.nodes = r.nodes,
                  !.len = @ + 1,
                  !.nodesleft = @ - Len(tree),
                  !.numnodes = @ + Len(tree),
                  !.maxnodes = Max(@, Len(tree))]]

\* an arena after alloc(numtrees, numnodes)
InitAdd ==
    /\ pc = "add"
    /\ \E numtrees \in 1..2, numnodes \in {1, 4} : trees1 = Alloc(numtrees, numnodes)
    /\ last = [before |-> trees1, raised |-> None, tree |-> <<>>, added |-> <<>>]
    /\ raised = None
    /\ n = 0
    /\ files = None /\ shards = None /\ prods = None /\ args = None /\ sents1 = None
    /\ trees2 = None /\ sents2 = None /\ labels = None /\ todo = {} /\ inter = {}
    /\ fragments = <<>> /\ cands = {} /\ pairs = {} /\ target = None
    /\ counts = <<>> /\ theindices = <<>>
    /\ pa = None /\ pb = None /\ pargs = None /\ matrix = None /\ presult = None

\* a call add(tree, prods) whose exception, if any, is caught by the caller;
\* last.added (history) holds the nodes of the trees added, as they were
\* stored by the call that added them
CtreesAdd ==
    /\ pc = "add"
    /\ n < MaxAdds
    /\ \E tree \in GoodTrees \cup BadTrees : \E garbage \in [1..3 -> GarbageRights] :
          LET r == Add(trees1, tree, 0, KnownProds, garbage)
          IN  /\ trees1' = r.self
              /\ raised' = r.raised
              /\ last' = [before |-> trees1, raised |-> r.raised, tree |-> tree,
                          added |-> IF r.raised # None THEN last.added
                                    ELSE Append(last.added,
                                                NodesAt(r.self, r.self.len - 1))]
    /\ n' = n + 1
    /\ UNCHANGED <<pc, files, shards, prods, args, sents1, trees2, sents2, labels, todo,
                   inter, fragments, cands, pairs, target, counts, theindices>>
    /\ UNCHANGED PairVars

\* trees as readnode writes them, given to addnodes
ArenaSources ==
    {<<[prod |-> 1, left |-> -1, right |-> -1]>>,
     <<[prod |-> 2, left |-> 1, right |-> -1], [prod |-> 0, left |-> -1, right |-> -1]>>,
     <<[prod |-> 1, left |-> 1, right |-> 2], [prod |-> 2, left |-> -1, right |-> -1],
       [prod |-> 0, left |-> -2, right |-> -1]>>}

\* a call addnodes(source, cnt, 0) on the same arena
ArenaAddNodes ==
    /\ pc = "add"
    /\ n < MaxAdds
    /\ \E source \in ArenaSources :
          LET r == AddNodes(trees1, source, Len(source), 0)
          IN  /\ trees1' = r
              /\ last' = [before |-> trees1, raised |-> None, tree |-> source,
                          added |-> Append(last.added, NodesAt(r, r.len - 1))]
    /\ raised' = None
    /\ n' = n + 1
    /\ UNCHANGED <<pc, files, shards, prods, args, sents1, trees2, sents2, labels, todo,
                   inter, fragments, cands, pairs, target, counts, theindices>>
    /\ UNCHANGED PairVars

NextAdd == CtreesAdd \/ ArenaAddNodes

SpecAdd == InitAdd /\ [][NextAdd]_vars

\* what has been added to an arena: the counters and the records and nodes
\* of the trees added; the field right of a terminal node, which copynodes
\* does not set, is left out
Committed(ct) ==
    [len |-> ct.len, numnodes |-> ct.numnodes, maxnodes |-> ct.maxnodes,
     trees |-> SubSeq(ct.trees, 1, ct.len),
     nodes |-> [p \in 1..ct.numnodes |->
                   IF ct.nodes[p].left < 0 THEN [ct.nodes[p] EXCEPT !.right = -1]
                   ELSE ct.nodes[p]]]

\* the last call of add failed in copynodes
AddFailed == pc = "add" /\ n > 0 /\ last.raised # None

\* the results add(tree) can have on an arena, over what fresh memory holds
AddResults(ct, tree) ==
    {LET r == Add(ct, tree, 0, KnownProds, g)
     IN  [raised |-> r.raised, added |-> Committed(r.self),
          nodesleft |-> r.self.nodesleft] : g \in [1..3 -> GarbageRights]}

\* C20: when add fails on a malformed tree, len, numnodes, nodesleft and
\* maxnodes have the values they had before the call, the records and nodes
\* of the trees added before are unchanged, and an add that follows gives
\* what it would have given without the failed call.
C20_FailedAddLeavesArena ==
    AddFailed =>
        /\ Committed(trees1) = Committed(last.before)
        /\ trees1.nodesleft = last.before.nodesleft
        /\ \A tree \in GoodTrees :
              AddResults(trees1, tree) \subseteq AddResults(last.before, tree)

\* C20, what does hold: after a failed add the counters len, numnodes and
\* maxnodes and the trees added before are unchanged, nodesleft has not
\* changed unless the call had to grow the arrays, and an add that follows
\* adds the same tree record and nodes as without the failed call.
C20_FailedAddKeepsCommitted ==
    AddFailed =>
        /\ Committed(trees1) = Committed(last.before)
        /\ trees1.nodesleft >= last.before.nodesleft
        /\ (last.before.len < last.before.max
            /\ last.before.nodesleft >= Len(last.tree)
                => /\ trees1.nodesleft = last.before.nodesleft
                   /\ trees1.max = last.before.max)
        /\ \A tree \in GoodTrees :
              {r.added : r \in AddResults(trees1, tree)}
                 \subseteq {r.added : r \in AddResults(last.before, tree)}

\* a failed add that had to grow the node array, after a tree was added
C20_Witness ==
    /\ AddFailed
    /\ trees1.len > 0
    /\ last.before.nodesleft < Len(last.tree)
    /\ trees1.nodesleft # last.before.nodesleft

\* ------------------------------------------- the representatives of the keys

\* the result maps strings to wrapped bitsets
ExactResult == ~args.approx /\ pc \in {"loop", "pairs", "returned", "counted", "indexed"}

\* C21: without approx every value of the result is a bitset that, rendered
\* on the tree of its id from its root, gives the key it is stored under,
\* and a key keeps the bitset it was first stored with.
C21_Representative ==
    /\ [](ExactResult => \A k \in DOMAIN fragments : StringOf(fragments[k]) = k)
    /\ [][ExactResult =>
            \A k \in DOMAIN fragments :
                k \in DOMAIN fragments' /\ fragments'[k] = fragments[k]]_vars

\* a round is about to collect a bitset whose string is a key already,
\* stored for an earlier tree
C21_Witness ==
    /\ ~args.approx
    /\ pc = "pairs" /\ todo = {}
    /\ \E w \in inter :
          /\ StringOf(w) \in DOMAIN fragments
          /\ fragments[StringOf(w)].id < n

\* ------------------------------------------------- the terminals of extractat

\* the unary nodes of a fragment
Unaries(a, bits) == {i \in bits : a.nodes[i].left >= 0 /\ a.nodes[i].right < 0}

\* C22: extractat returns the number of terminals absorbed, the nodes with
\* left < 0 that the call and its recursive calls set in the result, also
\* when terminals are reached through a unary node.
C22_TermsAbsorbed ==
    pc \in {"complement", "done"} =>
        \A e \in presult.log : e.terms = Cardinality(Terminals(pa, e.bits))

\* what does hold: the number returned is never more than the number of
\* terminals absorbed, and it is that number when the fragment has no
\* unary node
C22_TermsWithoutUnary ==
    pc \in {"complement", "done"} =>
        \A e \in presult.log :
            /\ e.terms <= Cardinality(Terminals(pa, e.bits))
            /\ Unaries(pa, e.bits) = {} =>
                  e.terms = Cardinality(Terminals(pa, e.bits))

\* ----------------------------------------------------------- Ctrees.addnodes

\* number of nodes of a source tree given to addnodes
MaxNodes == 3

\* the child indices of an array of nodes moved by d
Shift(s, d) ==
    [k \in 1..Len(s) |->
        [s[k] EXCEPT !.left = IF @ >= 0 THEN @ + d ELSE @,
                     !.right = IF @ >= 0 THEN @ + d ELSE @]]

\* the trees of k nodes as arrays in the order readnode writes them: a node
\* is followed by the nodes of its left and then of its right child
RECURSIVE Shapes(_)
Shapes(k) ==
    IF k = 1 THEN {<<[left |-> -1, right |-> -1]>>}
    ELSE {<<[left |-> 1, right |-> -1]>> \o Shift(c, 1) : c \in Shapes(k - 1)}
         \cup UNION {{<<[left |-> 1, right |-> 1 + h]>> \o Shift(c, 1) \o Shift(d, 1 + h) :
                        c \in Shapes(h), d \in Shapes(k - 1 - h)} : h \in 1..k-2}

\* the terminals numbered from left to right, the productions given by f
Numbered(shape, f) ==
    [k \in 1..Len(shape) |->
        [prod |-> f[k],
         left |-> IF shape[k].left >= 0 THEN shape[k].left
                  ELSE -Cardinality({h \in 1..k-1 : shape[h].left < 0}) - 1,
         right |-> shape[k].right]]

Bijections(k) ==
    {f \in [0..k-1 -> 0..k-1] : \A x, y \in 0..k-1 : f[x] = f[y] => x = y}

\* the array with node k moved to position f[k]
Permuted(nodes, f) ==
    [p \in 1..Len(nodes) |->
        LET s == nodes[(CHOOSE k \in 0..Len(nodes)-1 : f[k] = p - 1) + 1]
        IN  [s EXCEPT !.left = IF @ >= 0 THEN f[@] ELSE @,
                      !.right = IF @ >= 0 THEN f[@] ELSE @]]

\* the arguments source, cnt and root of addnodes: trees of up to MaxNodes
\* nodes with any productions, their nodes in any order
Sources ==
    UNION {UNION {{[source |-> Permuted(Numbered(shape, f), g), cnt |-> k, root |-> g[0]] :
                      f \in [1..k -> 0..MaxProd], g \in Bijections(k)} :
                  shape \in Shapes(k)} : k \in 1..MaxNodes}

\* an arena that is empty or holds one tree, with room or without
InitAddNodes ==
    /\ pc = "addnodes"
    /\ trees1 \in {Alloc(1, 1), Alloc(2, 8),
                   AddNodes(Alloc(1, 2), <<[prod |-> 1, left |-> 1, right |-> -1],
                                           [prod |-> 0, left |-> -1, right |-> -1]>>, 2, 0)}
    /\ pargs \in Sources
    /\ last = None
    /\ raised = None
    /\ n = 0
    /\ files = None /\ shards = None /\ prods = None /\ args = None /\ sents1 = None
    /\ trees2 = None /\ sents2 = None /\ labels = None /\ todo = {} /\ inter = {}
    /\ fragments = <<>> /\ cands = {} /\ pairs = {} /\ target = None
    /\ counts = <<>> /\ theindices = <<>>
    /\ pa = None /\ pb = None /\ matrix = None /\ presult = None

\* the call addnodes(source, cnt, root)
CtreesAddNodes ==
    /\ pc = "addnodes"
    /\ trees1' = AddNodes(trees1, pargs.source, pargs.cnt, pargs.root)
    /\ pc' = "added"
    /\ UNCHANGED <<files, shards, prods, args, sents1, trees2, sents2, labels, n, todo,
                   inter, fragments, raised, cands, pairs, last, target, counts,
                   theindices, pa, pb, pargs, matrix, presult>>

NextAddNodes == CtreesAddNodes

SpecAddNodes == InitAddNodes /\ [][NextAddNodes]_vars

\* C24: addnodes stores the source nodes as a permutation sorted by
\* production, stable for equal productions, and rewrites the child indices
\* and the root through that permutation: the node stored for a source
\* node has its production, its terminal index if it is a terminal, right
\* = -1 iff the source node is unary, and the images of its children.
C24_SortedIsomorphic ==
    pc = "added" =>
        LET cnt == pargs.cnt
            src == [k \in 0..cnt-1 |-> pargs.source[k + 1]]
            rec == TreeAt(trees1, trees1.len - 1)
            dest == NodesAt(trees1, trees1.len - 1)
        IN  /\ rec.len = cnt
            /\ \A p \in 0..cnt-2 : dest[p].prod <= dest[p + 1].prod
            /\ \E f \in Bijections(cnt) :
                  /\ \A x, y \in 0..cnt-1 :
                        (x < y /\ src[x].prod = src[y].prod) => f[x] < f[y]
                  /\ rec.root = f[pargs.root]
                  /\ \A k \in 0..cnt-1 :
                        /\ dest[f[k]].prod = src[k].prod
                        /\ dest[f[k]].left = IF src[k].left < 0 THEN src[k].left
                                             ELSE f[src[k].left]
                        /\ dest[f[k]].right = IF src[k].right < 0 THEN -1
                                              ELSE f[src[k].right]

\* a binary tree was added whose nodes were not in the order of their
\* productions, with two nodes of the same production, behind another tree
C24_Witness ==
    /\ pc = "added"
    /\ trees1.len = 2
    /\ pargs.cnt = 3
    /\ pargs.root # 0
    /\ TreeAt(trees1, 1).root # pargs.root
    /\ \E k \in 1..3 : pargs.source[k].right >= 0
    /\ \E x, y \in 1..3 : x < y /\ pargs.source[x].prod = pargs.source[y].prod
    /\ \E x, y \in 1..3 : x < y /\ pargs.source[x].prod > pargs.source[y].prod

\* ---------------------------------------------------------- the index of trees

\* the productions of tree m of a treebank
ProdsOfTree(ct, m) == {NodesAt(ct, m)[i].prod : i \in 0..TreeAt(ct, m).len-1}

\* treeswithprod of a treebank is as C25 says
Indexed(ct) ==
    /\ Len(ct.treeswithprod) = Len(prods)
    /\ \A p \in 0..Len(prods)-1 : \A m \in 0..ct.len-1 :
          m \in TreesWithProd(ct, p) <=> p \in ProdsOfTree(ct, m)

\* C25: after indextrees(prods), for every production p of prods and every
\* tree m of the treebank, m is in treeswithprod[p] iff a node of tree m has
\* production p.
C25_TreesWithProd ==
    pc \in {"loop", "pairs"} => Indexed(trees1) /\ Indexed(trees2)

\* two treebanks were indexed: one holds a production the other lacks, a
\* production is in several trees, and in a tree below the root only
C25_Witness ==
    /\ pc = "loop"
    /\ files.trees2 # <<>>
    /\ \E p \in 0..Len(prods)-1 :
          TreesWithProd(trees1, p) = {} /\ TreesWithProd(trees2, p) # {}
    /\ \E p \in 0..Len(prods)-1 : Cardinality(TreesWithProd(trees1, p)) >= 2
    /\ \E p \in 0..Len(prods)-1 : \E m \in TreesWithProd(trees1, p) :
          NodesAt(trees1, m)[TreeAt(trees1, m).root].prod # p

\* ------------------------------------------------- the counters of the arena

\* the sum of the lengths of the trees 0..k-1 added
RECURSIVE SumLen(_, _)
SumLen(added, k) ==
    IF k = 0 THEN 0 ELSE SumLen(added, k - 1) + Cardinality(DOMAIN added[k])

\* C26: after alloc and any add and addnodes calls, len is the number of
\* trees added and at most max, the offset of a tree is the sum of the
\* lengths of the trees before it, numnodes is the sum of all lengths,
\* nodesleft >= 0 and numnodes + nodesleft is the number of nodes
\* allocated, maxnodes is the greatest length, and the nodes of the trees
\* added earlier are as they were stored.
C26_ArenaCounters ==
    pc = "add" =>
        LET added == last.added
        IN  /\ trees1.len = Len(added)
            /\ trees1.len <= trees1.max
            /\ trees1.max = trees1.alloctrees
            /\ \A k \in 0..trees1.len-1 :
                  /\ TreeAt(trees1, k).offset = SumLen(added, k)
                  /\ TreeAt(trees1, k).len = Cardinality(DOMAIN added[k + 1])
                  /\ NodesAt(trees1, k) = added[k + 1]
            /\ trees1.numnodes = SumLen(added, Len(added))
            /\ trees1.nodesleft >= 0
            /\ trees1.numnodes + trees1.nodesleft = trees1.allocnodes
            /\ trees1.maxnodes =
                  MaxOf({0} \cup {Cardinality(DOMAIN added[k]) : k \in 1..Len(added)})

\* three trees were added, by add and by addnodes, and both arrays had to
\* grow on the way
C26_Witness ==
    /\ pc = "add"
    /\ trees1.len = 3
    /\ trees1.alloctrees > 2
    /\ trees1.allocnodes > 4
    /\ \E k \in 0..2 : NodesAt(trees1, k)[0].prod # 0
    /\ \E k \in 0..2 : NodesAt(trees1, k)[0].left = 1 /\ NodesAt(trees1, k)[0].prod = 0
    /\ TreeAt(trees1, 2).offset > 2

\* ------------------------------------------------- the bits and the nodes

\* every set bit of the bitset is a node of the tree a
BitsAreNodes(a, w) == \A i \in w.bits : i < a.len

\* C27: every set bit i of a bitset emitted by extractfragments, with its
\* complement fragments, is a node of the tree of its id: i < a.len, so
\* that the guard 'i >= a.len' of exactcounts never fires.
C27_BitsAreNodes ==
    pc \in {"complement", "done"} =>
        \A w \in presult.inter : BitsAreNodes(pa, w)

\* what does hold: the bits of the maximal fragments are nodes of the tree,
\* and so are those of the complement fragments when malloc returned
\* zeroed memory
C27_BitsAreNodesZeroed ==
    pc \in {"complement", "done"} =>
        /\ \A w \in presult.main : BitsAreNodes(pa, w)
        /\ presult.garbage = {} => \A w \in presult.inter : BitsAreNodes(pa, w)

\* ------------------------------------------- fasttreekernel, step by step

\* the production read at a[k]: a read past the end of the array gives
\* whatever lies there
ReadProd(a, k) == IF k < a.len THEN {a.nodes[k].prod} ELSE 0..MaxProd

\* the innermost loop without the test of ii against alen
InnerStepNoBreak(c, x, y) ==
    IF x = y
    THEN [c EXCEPT !.ii = @ + 1, !.set = TRUE, !.at = "inner"]
    ELSE [c EXCEPT !.set = FALSE, !.at = "next"]

\* one round of the innermost loop, x and y being the productions read at
\* a[ii] and b[j]: the cursors after it, whether bit ii of row j was set and
\* where the function goes on
InnerStep(c, x, y) ==
    IF x = y
    THEN [c EXCEPT !.ii = @ + 1, !.set = TRUE,
                   !.at = IF c.ii + 1 >= pa.len THEN "next" ELSE "inner"]
    ELSE [c EXCEPT !.set = FALSE, !.at = "next"]

InitSteps ==
    /\ pc = "top"
    /\ pa \in SortedArrays
    /\ pb \in SortedArrays
    /\ pargs = [i |-> 0, j |-> 0, ii |-> 0, set |-> FALSE, at |-> "top"]
    /\ matrix = [j \in 0..pb.len |-> {}]
    /\ presult = None
    /\ InitUnused

\* the head of the outer loop: the comparison of a[i] and b[j]
KernelTop ==
    /\ pc = "top"
    /\ \E x \in ReadProd(pa, pargs.i), y \in ReadProd(pb, pargs.j) :
          IF x < y
          THEN /\ pargs' = [pargs EXCEPT !.i = @ + 1]
               /\ pc' = IF pargs.i + 1 >= pa.len THEN "returned" ELSE "top"
          ELSE IF x > y
          THEN /\ pargs' = [pargs EXCEPT !.j = @ + 1]
               /\ pc' = IF pargs.j + 1 >= pb.len THEN "returned" ELSE "top"
          ELSE /\ pc' = "while"
               /\ UNCHANGED pargs
    /\ UNCHANGED <<pa, pb, matrix, presult>>
    /\ UNCHANGED Unused

\* the head of the loop over the nodes of b with the production of a[i]
KernelWhile ==
    /\ pc = "while"
    /\ \E x \in ReadProd(pa, pargs.i), y \in ReadProd(pb, pargs.j) :
          IF x = y
          THEN pargs' = [pargs EXCEPT !.ii = pargs.i] /\ pc' = "inner"
          ELSE UNCHANGED pargs /\ pc' = "top"
    /\ UNCHANGED <<pa, pb, matrix, presult>>
    /\ UNCHANGED Unused

\* a round of the innermost loop; a bit set outside the rows of the matrix
\* lands in the row behind the last
KernelInner ==
    /\ pc = "inner"
    /\ \E x \in ReadProd(pa, pargs.ii), y \in ReadProd(pb, pargs.j) :
          LET c == InnerStep(pargs, x, y)
          IN  /\ pargs' = c
              /\ pc' = c.at
              /\ matrix' = IF c.set
                           THEN [matrix EXCEPT ![Min(pargs.j, pb.len)] = @ \cup {pargs.ii}]
                           ELSE matrix
    /\ UNCHANGED <<pa, pb, presult>>
    /\ UNCHANGED Unused

\* the end of a round of the loop over the nodes of b
KernelNextRow ==
    /\ pc = "next"
    /\ pargs' = [pargs EXCEPT !.j = @ + 1]
    /\ pc' = IF pargs.j + 1 >= pb.len THEN "returned" ELSE "while"
    /\ UNCHANGED <<pa, pb, matrix, presult>>
    /\ UNCHANGED Unused

NextSteps == KernelTop \/ KernelWhile \/ KernelInner \/ KernelNextRow

\* the function runs on until it returns
SpecSteps == InitSteps /\ [][NextSteps]_vars /\ WF_vars(NextSteps)

\* the reads and the write of the step the function is at are inside the
\* arrays and the matrix
StepInBounds ==
    /\ pc \in {"top", "while"} => pargs.i < pa.len /\ pargs.j < pb.len
    /\ pc = "inner" => pargs.ii < pa.len /\ pargs.j < pb.len
    /\ matrix[pb.len] = {}
    /\ \A j \in 0..pb.len-1 : matrix[j] \subseteq 0..pa.len-1

\* C28: on non-empty sorted arrays fasttreekernel returns, every step
\* advancing i, j or ii, and it reads no a[k] with k >= alen and no b[k]
\* with k >= blen and sets no bit outside rows 0..blen-1 and columns
\* 0..alen-1.
C28_TerminatesInBounds ==
    /\ <>(pc = "returned")
    /\ []StepInBounds
    /\ [][/\ pargs'.i >= pargs.i /\ pargs'.j >= pargs.j
          /\ (pc = "top" /\ pc' # "while") => pargs'.i + pargs'.j > pargs.i + pargs.j
          /\ (pc = "inner" /\ pargs'.set) => pargs'.ii > pargs.ii
          /\ pc = "next" => pargs'.j > pargs.j]_vars

\* the function has returned after it set a run of bits that ends with the
\* array a, and after it advanced each of i and j past a production
C28_Witness ==
    /\ pc = "returned"
    /\ pargs.i > 0
    /\ pargs.j > pargs.i
    /\ \E j \in 0..pb.len-1 : {pa.len - 2, pa.len - 1} \subseteq matrix[j]
    /\ \E j \in 0..pb.len-1 : matrix[j] = {}

\* the steps compute what the function computes
StepsComputeKernel ==
    pc = "returned" =>
        \A j \in 0..pb.len-1 :
            matrix[j] = fasttreekernel(pa.nodes, pb.nodes, pa.len, pb.len,
                                       ZeroMatrix(pb.len))[j]

\* ------------------------------------------------------------------ getctrees

\* addprods(tree, sent, disc=False): the CFG production of a node, its label
\* with the labels of its children, or the word when the child is a terminal
CfgProd(t) ==
    IF t.children = <<>> THEN <<t.label, t.word[1]>>
    ELSE IF Len(t.children) = 1 THEN <<t.label, t.children[1].label>>
    ELSE <<t.label, t.children[1].label, t.children[2].label>>

\* tolist(addprods(tree, sent, False), sent): the nodes in preorder with
\* their idx, a child being a terminal index or the idx of a node; st
\* holds the list and the number of terminals met
RECURSIVE ToList(_, _)
ToList(t, st) ==
    LET idx == Len(st.result)
        isterm == t.children = <<>>
        st1 == [result |-> Append(st.result, None),
                terms |-> IF isterm THEN st.terms + 1 ELSE st.terms]
        st2 == IF isterm THEN st1 ELSE ToList(t.children[1], st1)
        right == Len(st2.result)
        st3 == IF Len(t.children) = 2 THEN ToList(t.children[2], st2) ELSE st2
    IN  [st3 EXCEPT !.result[idx + 1] =
            [tree |-> TRUE, label |-> t.label, prod |-> CfgProd(t),
             kids |-> IF isterm THEN <<[int |-> TRUE, v |-> st.terms]>>
                      ELSE IF Len(t.children) = 1 THEN <<[int |-> FALSE, v |-> idx + 1]>>
                      ELSE <<[int |-> FALSE, v |-> idx + 1],
                             [int |-> FALSE, v |-> right]>>]]

tolist(t) == ToList(t, [result |-> <<>>, terms |-> 0]).result

\* getlabelsprods: labels and prods after the nodes k.. of the trees i.. were
\* looked at
RECURSIVE getlabelsprods(_, _, _, _)
getlabelsprods(trees, i, k, st) ==
    IF i > Len(trees) THEN st
    ELSE IF k > Len(trees[i]) THEN getlabelsprods(trees, i + 1, 1, st)
    ELSE LET a == trees[i][k]
         IN  getlabelsprods(trees, i, k + 1,
                IF Occurs(st.prods, a.prod) THEN st
                ELSE [labels |-> Append(st.labels, a.label),
                      prods |-> Append(st.prods, a.prod)])

\* tree.sort(key=partial(getprodid, prods)) and the new idx of the nodes;
\* rootidx is the idx of the node that was first
SortedTree(tree, prods0) ==
    LET cnt == Len(tree)
        sortidx == SortIdx([k \in 1..cnt |-> [prod |-> ProdId(prods0, tree[k].prod)]], cnt)
    IN  [rootidx |-> sortidx[0],
         tree |-> [m \in 1..cnt |->
                     LET a == tree[(CHOOSE k \in 0..cnt-1 : sortidx[k] = m - 1) + 1]
                     IN  [a EXCEPT !.kids =
                            [c \in 1..Len(a.kids) |->
                                IF a.kids[c].int THEN a.kids[c]
                                ELSE [int |-> FALSE, v |-> sortidx[a.kids[c].v]]]]]]

\* Ctrees(trees, prods): alloc, then add for every tree
RECURSIVE AddAll(_, _, _, _, _)
AddAll(self, sorted, i, prods0, garbage) ==
    IF i > Len(sorted) THEN self
    ELSE AddAll(Add(self, sorted[i].tree, sorted[i].rootidx, prods0, garbage).self,
                sorted, i + 1, prods0, garbage)

\* the sum of the lengths of the lists from i on
RECURSIVE SumLens(_, _)
SumLens(trees, i) == IF i > Len(trees) THEN 0 ELSE Len(trees[i]) + SumLens(trees, i + 1)

\* getctrees(trees, sents, disc=False)
getctrees(trees, garbage) ==
    LET lists == [i \in 1..Len(trees) |-> tolist(trees[i])]
        lp == getlabelsprods(lists, 1, 1, [labels |-> <<>>, prods |-> <<>>])
        sorted == [i \in 1..Len(lists) |-> SortedTree(lists[i], lp.prods)]
        ct == AddAll(Alloc(Len(lists), SumLens(lists, 1)), sorted, 1, lp.prods, garbage)
    IN  [trees1 |-> IndexTrees(ct, lp.prods), prods |-> lp.prods, labels |-> lp.labels]

\* words, written like labels as sequences of characters
Wdog == <<"d", "o", "g">>
Wthe == <<"t", "h", "e">>
Wran == <<"r", "a", "n">>

\* the trees getctrees is given; in two of them the word is 'NN'
CfgLibrary ==
    << \* (NP (NN dog))
       Un(NP, Pre(NN, Wdog)),
       \* (NP NN)
       Pre(NP, NN),
       \* (S (NP (NN dog)) (VP (VBD ran)))
       Bin(S, Un(NP, Pre(NN, Wdog)), Un(VP, Pre(VBD, Wran))),
       \* (NP (DT the) (NN dog))
       Bin(NP, Pre(DT, Wthe), Pre(NN, Wdog)),
       \* (S (NP NN) (VP (VBD ran)))
       Bin(S, Pre(NP, NN), Un(VP, Pre(VBD, Wran))),
       \* (NN dog)
       Pre(NN, Wdog),
       \* (VP (VBD ran))
       Un(VP, Pre(VBD, Wran)),
       \* (S (NP (DT the) (NN dog)) (VP (VBD ran)))
       Bin(S, Bin(NP, Pre(DT, Wthe), Pre(NN, Wdog)), Un(VP, Pre(VBD, Wran)))
    >>

\* one tree or two
InitCtrees ==
    /\ pc = "getctrees"
    /\ \E c \in UNION {[1..len -> 1..Len(CfgLibrary)] : len \in 1..2} :
          files = [trees1 |-> [x \in 1..Len(c) |-> CfgLibrary[c[x]]], trees2 |-> <<>>]
    /\ shards = NoShards
    /\ args = None
    /\ prods = <<>>
    /\ labels = <<>>
    /\ trees1 = Alloc(0, 0)
    /\ sents1 = <<>>
    /\ trees2 = None
    /\ sents2 = <<>>
    /\ n = 0 /\ todo = {} /\ inter = {} /\ fragments = <<>> /\ raised = None
    /\ cands = {} /\ pairs = {} /\ last = NoPair /\ target = None
    /\ counts = <<>> /\ theindices = <<>>
    /\ pa = None /\ pb = None /\ pargs = None /\ matrix = None /\ presult = None

\* the call getctrees(trees, sents, disc=False)
GetCtrees ==
    /\ pc = "getctrees"
    /\ \E garbage \in [1..6 -> GarbageRights] :
          LET r == getctrees(files.trees1, garbage)
          IN  /\ trees1' = r.trees1
              /\ prods' = r.prods
              /\ labels' = r.labels
    /\ pc' = "built"
    /\ UNCHANGED <<files, shards, args, sents1, trees2, sents2>>
    /\ UNCHANGED History
    /\ UNCHANGED PairVars

NextCtrees == GetCtrees

SpecCtrees == InitCtrees /\ [][NextCtrees]_vars

\* the nodes of the trees of a treebank
AllNodes(ct) ==
    UNION {{NodesAt(ct, m)[i] : i \in 0..TreeAt(ct, m).len-1} : m \in 0..ct.len-1}

\* C29: in trees built by getctrees and addprods or by readnode, two nodes
\* with the same production have the same shape: left < 0 in one iff in
\* the other, right < 0 in one iff in the other.
C29_SameProdSameShape ==
    pc = "built" =>
        \A x, y \in AllNodes(trees1) :
            x.prod = y.prod =>
                /\ x.left < 0 <=> y.left < 0
                /\ x.right < 0 <=> y.right < 0

\* the words and the labels of the trees given to getctrees
RECURSIVE WordsIn(_)
WordsIn(t) ==
    IF t.children = <<>> THEN {t.word[1]}
    ELSE UNION {WordsIn(t.children[c]) : c \in 1..Len(t.children)}

RECURSIVE LabelsIn(_)
LabelsIn(t) ==
    {t.label} \cup UNION {LabelsIn(t.children[c]) : c \in 1..Len(t.children)}

\* what does hold of getctrees with CFG productions: when no word is also a
\* label, nodes with the same production are both terminals or both not,
\* and if not, both unary or both binary
C29_SameShapeUnlessWordIsLabel ==
    (/\ pc = "built"
     /\ \A i, j \in 1..Len(files.trees1) :
           WordsIn(files.trees1[i]) \cap LabelsIn(files.trees1[j]) = {})
        => \A x, y \in AllNodes(trees1) :
              x.prod = y.prod =>
                  /\ x.left < 0 <=> y.left < 0
                  /\ x.left >= 0 => (x.right < 0 <=> y.right < 0)

\* what does hold of readnode: the trees of the treebanks read from files
\* have nodes of the same shape wherever the productions are the same
C29_ReadnodeSameShape ==
    pc \in {"loop", "pairs"} =>
        \A x, y \in AllNodes(trees1) \cup AllNodes(trees2) :
            x.prod = y.prod =>
                /\ x.left < 0 <=> y.left < 0
                /\ x.right < 0 <=> y.right < 0

\* ------------------------------------------------- each cell absorbed once

\* the cells (i, j) that fasttreekernel sets for the pair
KernelCells ==
    LET m == fasttreekernel(pa.nodes, pb.nodes, pa.len, pb.len, ZeroMatrix(pb.len))
    IN  {c \in (0..pa.len-1) \X (0..pb.len-1) : c[1] \in m[c[2]]}

\* C23: the cells set by the kernel are each cleared by exactly one call of
\* extractat: the traversals of two fragments share no cell, every cell
\* set is in one of them, and when extractbitsets from the root of b has
\* returned every row of the matrix is zero.
C23_CellsAbsorbedOnce ==
    pc \in {"complement", "done"} =>
        /\ \A e1, e2 \in presult.log : e1 # e2 => e1.cells \cap e2.cells = {}
        /\ UNION {e.cells : e \in presult.log} = KernelCells
        /\ \A e \in presult.log : Cardinality(e.cells) = Cardinality(e.bits)
        /\ \A j \in 0..pb.len-1 : matrix[j] = {}

\* extractbitsets has returned; a fragment absorbed the cell of a row below
\* the one it started at, and another fragment started at a lower row
C23_Witness ==
    /\ pc \in {"complement", "done"}
    /\ \E e1, e2 \in presult.log :
          /\ \E c \in e1.cells : c[2] # e1.j /\ c[2] = e2.j
          /\ e1 # e2

\* ------------------------------------------------------ approximate counts

\* the nodes of tree w.id that the bitset of w holds
NodeSetOf(w) == {i \in w.bits : i < TreeAt(trees1, w.id).len}

\* the fragments of tree n in inter that render to key, as pairs of their
\* root and their set of nodes
FragmentsFor(key) ==
    {<<w.root, NodeSetOf(w)>> : w \in {x \in inter : StringOf(x) = key}}

\* a round of the loop over n ends: every count grows by the number of
\* fragments of tree n that render to its key
RoundCounts ==
    (args.approx /\ pc = "pairs" /\ pc' = "loop") =>
        \A key \in DOMAIN fragments' :
            fragments'[key] = (IF key \in DOMAIN fragments THEN fragments[key] ELSE 0)
                              + Cardinality(FragmentsFor(key))

\* C30: with approx the count of a key is the number of distinct fragments
\* (source tree n, root, set of nodes) extracted that render to the key: a
\* fragment of tree n extracted with several partners counts once for n,
\* two sets of nodes of tree n with the same string count separately.
C30_ApproxCounts == [][RoundCounts]_vars

\* what does hold: the same without complement
C30_ApproxCountsNoComplement == [][~args.complement => RoundCounts]_vars

\* a round is about to end in which tree n was paired with two trees that
\* share a fragment with it, and in which two sets of nodes of tree n have
\* the same string
C30_Witness ==
    /\ args.approx /\ ~args.complement
    /\ pc = "pairs" /\ todo = {}
    /\ \E x, y \in pairs :
          /\ x[1] = n /\ y[1] = n /\ x[2] # y[2]
          /\ \E w \in inter : w \in MaximalCommon(n, x[2]) \cap MaximalCommon(n, y[2])
    /\ \E v, w \in inter : v # w /\ StringOf(v) = StringOf(w)
====
